---- MODULE Spec2Model ----
(***************************************************************************)
(* A model of kavi's rendering core: the descriptor-set-layout merge of    *)
(* the pipeline builder, the frame orchestrator (RenderBackend) with the   *)
(* interop (DXGI) swapchain, and the resize handshake between the window   *)
(* thread and the client thread.                                           *)
(***************************************************************************)
EXTENDS Integers, Sequences, FiniteSets, TLC

VARIABLES
    \* ---- descriptor-set-layout merge (pipeline.rs) ----
    dslShaders,     \* the `shaders` argument of create_descriptor_set_layouts
    dslPermuted,    \* the same shaders, registered in another order
    dslResult,      \* <<result for dslShaders, result for dslPermuted>>, or <<>>
    \* ---- frame orchestrator (backend.rs, swapchain.rs, render.rs) ----
    backendState,   \* "live" | "failed" (a recreate returned Err) | "dropped"
    fenceSignaled,  \* state of each fence of in_flight_fences
    frames,         \* RenderBackend::frames
    frame,          \* RenderBackend::frame, the slot index
    extent,         \* DxgiSwapchain::extent
    swapIndex,      \* the foreign swapchain's current back buffer index
    gen,            \* number of recreate_swapchain calls (names fresh handles)
    tokens,         \* SwapchainImage values returned by begin_frame, not yet drawn
    recorded,       \* what each command buffer was last recorded with
    gpuQueue,       \* queue submissions not yet completed, in submission order
    ACQUIRE_VALUE,  \* static VALUE of DxgiSwapchain::acquire_next_image
    DRAW_VALUE,     \* static VALUE of RenderBackend::draw_frame
    acquireSem,     \* counter of the acquire timeline semaphore
    finishedSem,    \* counter of the rendering-finished timeline semaphore
    lastCalls,      \* steps the latest draw_frame performed, in program order
    presentLog,     \* calls the latest DxgiSwapchain::present made, in order
    dxgi,           \* DxgiSwapchain: shared handles, foreign resources, calls
    drawResult,     \* what the latest draw_frame returned: "Ok" | "Err" | "none"
    drawError,      \* the device call whose error it returned, or "none"
    nDraw,          \* number of draw_frame calls so far
    beginsSinceDraw,\* begin_frame returns since the latest draw_frame call
    shaders,        \* RenderBackend::shaders
    descriptor_set_layouts,
    layoutSerial,   \* number of allocate_descriptor_set calls (names fresh handles)
    layoutLog,      \* create/destroy calls on descriptor-set layouts, in order
    render_pass,    \* RenderBackend::render_pass
    compute_pipelines,
    graphics_pipelines,
    \* ---- window thread / client thread (window.rs, gui.rs) ----
    winPc,          \* window thread: "pump" | "wm_size" | "ended" | "panicked"
    FLAG,           \* static FLAG of the WM_SIZE handler
    winQueue,       \* the WindowEvent channel, window thread -> client thread
    ack,            \* the oneshot channel of the Resize being handled
    clientPc,       \* client thread position
    clientEvent,    \* the event handle_window_event is working on
    drawnExtent,    \* extent of the frame drawn last by Render::draw_frame
    toServer,       \* ClientMessage channel, client thread -> main thread
    mainPc,         \* main thread: "loop" | "done"
    \* ---- frame composer and glyph atlas (render.rs, glyph_atlas.rs) ----
    text,           \* the characters of the rope handed to Render::draw_frame
    atlas,          \* Render::atlas: dims, glyph_dims and the char -> index map
    text_buffer,    \* Render::text_buffer: its size and the entries written
    updateResult,   \* what the latest update_buffer returned: "Ok" or the error
    mapCall,        \* a Buffer::map_memory call: buffer size, start, count, T
    mapResult,      \* what that call returned, NotCalled before it
    dispatch,       \* work-group count of the recorded dispatch: <<>> or <<n>>
    font,           \* the font GlyphAtlas::new opens: glyph count and bounds
    glyphAtlas,     \* what GlyphAtlas::new computed, <<>> before it ran
    swapchain,      \* the native Swapchain: handle, semaphore rings, ring index
    surfaceState,   \* what the presentation engine says of the surface
    acquireCount,   \* successful acquire_next_image calls of the native variant
    lastAcquire,    \* the latest acquire_next_image call, <<>> before the first
    lastPresent,    \* the latest present call, <<>> before the first
    \* ---- device context and its holders (device.rs, buffer.rs, image.rs) ----
    objects,        \* the objects created so far: kind, what they own, state
    deviceArc,      \* strong count of the Arc<Device>
    orchestrator,   \* the RenderBackend: "live" | "dropped"
    vkLog,          \* device calls made for these objects, in program order
    pdevices,       \* what enumerate_physical_devices yields, in order
    selection,      \* result of the device selection of RenderBackend::new
    logicalDevice,  \* result of Device::create, <<>> before it ran
    \* ---- language-server transport (lsp/transport.rs) ----
    stream,         \* bytes written to the pipe and not yet read
    outbox,         \* the frames written so far, in order
    received,       \* what each try_read of the listener returned, in order
    \* ---- protocol client (lsp.rs) ----
    request_counter,   \* Context::request_counter
    pending_requests,  \* Context::pending_requests: id and callback
    requested,         \* client requests processed so far
    handled,           \* the server responses processed: which callback ran
    forwarded,         \* server requests and notifications passed on
    clientState,       \* the client thread: "running" | "panicked"
    clientError        \* the error its handler returned last, "" if none

varsDsl == <<dslShaders, dslPermuted, dslResult>>
varsFrames == <<backendState, fenceSignaled, frames, frame, swapIndex, gen,
                tokens, recorded, gpuQueue, ACQUIRE_VALUE, DRAW_VALUE,
                acquireSem, finishedSem, lastCalls, presentLog, dxgi,
                drawResult, drawError,
                nDraw,
                beginsSinceDraw>>
varsPipes == <<shaders, descriptor_set_layouts, layoutSerial, layoutLog,
               render_pass,
               compute_pipelines, graphics_pipelines>>
varsWin == <<winPc, FLAG, winQueue, ack, clientPc, clientEvent, drawnExtent,
             toServer, mainPc>>
varsText == <<text, atlas, text_buffer, updateResult, dispatch, mapCall,
              mapResult>>
varsAtlas == <<font, glyphAtlas>>
varsRender == <<varsText, varsAtlas>>
varsSwap == <<swapchain, surfaceState, acquireCount, lastAcquire, lastPresent>>
varsLife == <<objects, deviceArc, orchestrator, vkLog>>
varsSel == <<pdevices, selection, logicalDevice>>
varsTransport == <<stream, outbox, received>>
varsClient == <<request_counter, pending_requests, requested, handled,
                forwarded, clientState, clientError>>
varsLsp == <<varsTransport, varsClient>>
varsOther == <<varsSwap, varsLife, varsSel, varsLsp>>
vars == <<varsDsl, varsRender, varsOther, varsFrames, varsPipes, extent, varsWin>>

None == "None"

Range(s) == {s[i] : i \in DOMAIN s}

(***************************************************************************)
(* Shader metadata (pipeline.rs ShaderMetadata): entry point, stage and a  *)
(* list of (set, binding, descriptor kind, count) tuples.                  *)
(***************************************************************************)
Descriptor(set, binding, kind, count) ==
    [set |-> set, binding |-> binding, kind |-> kind, count |-> count]

\* The three shaders render.rs defines and registers.
COMPUTE_SHADER ==
    [entry |-> "cs_with_font", stage |-> "COMPUTE",
     descriptors |-> <<Descriptor(0, 0, "STORAGE_IMAGE", 1),
                       Descriptor(0, 1, "STORAGE_IMAGE", 1),
                       Descriptor(0, 2, "STORAGE_BUFFER", 1)>>]
VERTEX_SHADER ==
    [entry |-> "main_vs", stage |-> "VERTEX", descriptors |-> <<>>]
FRAGMENT_SHADER ==
    [entry |-> "main_fs", stage |-> "FRAGMENT",
     descriptors |-> <<Descriptor(0, 0, "STORAGE_IMAGE", 1)>>]
\* The shader render.rs keeps commented out: same slot as FRAGMENT_SHADER,
\* another count.
FB_COMPUTE_SHADER ==
    [entry |-> "fb_cs", stage |-> "COMPUTE",
     descriptors |-> <<Descriptor(0, 0, "STORAGE_IMAGE", 3)>>]
\* Further inputs: a slot of another kind, and a shader that skips set 1.
BUFFER_SHADER ==
    [entry |-> "buf_vs", stage |-> "VERTEX",
     descriptors |-> <<Descriptor(0, 0, "STORAGE_BUFFER", 1),
                       Descriptor(2, 1, "STORAGE_BUFFER", 2)>>]
SPARSE_SHADER ==
    [entry |-> "sparse_fs", stage |-> "FRAGMENT",
     descriptors |-> <<Descriptor(2, 1, "STORAGE_BUFFER", 2),
                       Descriptor(2, 0, "STORAGE_IMAGE", 1),
                       Descriptor(0, 1, "STORAGE_IMAGE", 1)>>]

ShaderPool == {COMPUTE_SHADER, VERTEX_SHADER, FRAGMENT_SHADER,
               FB_COMPUTE_SHADER, BUFFER_SHADER, SPARSE_SHADER}

\* Longest shader list handed to the merge.
MaxShaders == 3

(***************************************************************************)
(* create_descriptor_set_layouts                                           *)
(***************************************************************************)
RECURSIVE FlatMap(_, _)
\* shaders.iter().flat_map(|s| s.descriptors.iter().map(|d| (s.stage, d)))
FlatMap(ss, i) ==
    IF i > Len(ss) THEN <<>>
    ELSE [k \in 1..Len(ss[i].descriptors) |->
             [stage |-> ss[i].stage, d |-> ss[i].descriptors[k]]]
         \o FlatMap(ss, i + 1)

\* anyhow::bail!("there are conflicting descriptors"): a fixed message, no
\* format arguments.
ConflictError == [msg |-> "there are conflicting descriptors", args |-> <<>>]

\* Entry::Occupied with a matching (kind, count): e.get_mut().0 |= stage
OccupiedStagesDropped(old, stage) == {stage}
OccupiedStages(old, stage) == old \cup {stage}

\* matches!(e.get(), &(_, k, c) if k == kind && c == count)
EntryMatchesKindOnly(e, d) == e.kind = d.kind
EntryMatches(e, d) == e.kind = d.kind /\ e.count = d.count

\* if set > set_count { set_count = set }
SetCountAfterLast(set_count, set) == set
SetCountAfter(set_count, set) == IF set > set_count THEN set ELSE set_count

RECURSIVE MergeLoop(_, _, _, _)
\* The merge loop: `map` is the BTreeMap keyed by (set, binding), `set_count`
\* the highest set index seen so far.
MergeLoop(decls, i, map, set_count) ==
    IF i > Len(decls) THEN [ok |-> TRUE, map |-> map, set_count |-> set_count]
    ELSE LET stage == decls[i].stage
             d == decls[i].d
             key == <<d.set, d.binding>>
             sc == SetCountAfter(set_count, d.set)
         IN  IF key \notin DOMAIN map
             THEN MergeLoop(decls, i + 1,
                      [k \in DOMAIN map \cup {key} |->
                          IF k = key
                          THEN [stages |-> {stage}, kind |-> d.kind,
                                count |-> d.count]
                          ELSE map[k]],
                      sc)
             ELSE IF EntryMatches(map[key], d)
                  THEN MergeLoop(decls, i + 1,
                           [map EXCEPT ![key].stages =
                               OccupiedStages(map[key].stages, stage)],
                           sc)
                  ELSE [ok |-> FALSE, err |-> ConflictError]

\* The keys of one set in BTreeMap iteration order (ascending binding).
RECURSIVE BindingsInOrder(_)
BindingsInOrder(bs) ==
    IF bs = {} THEN <<>>
    ELSE LET m == CHOOSE b \in bs : \A c \in bs : b <= c
         IN  <<m>> \o BindingsInOrder(bs \ {m})

\* The bindings Vec of descriptor set `set`.
SetBindings(map, set) ==
    LET order == BindingsInOrder({k[2] : k \in {q \in DOMAIN map : q[1] = set}})
    IN  [n \in 1..Len(order) |->
            [binding |-> order[n],
             descriptor_count |-> map[<<set, order[n]>>].count,
             descriptor_type |-> map[<<set, order[n]>>].kind,
             stage_flags |-> map[<<set, order[n]>>].stages]]

\* The else branch of the lookup alone: a new entry for every binding.
PoolAddAlwaysPush(pool, i, b) ==
    Append(pool, [ty |-> b.descriptor_type,
                  descriptor_count |-> b.descriptor_count])

RECURSIVE PoolAdd(_, _, _)
\* descriptor_pool_sizes.iter_mut().find(|item| item.ty == kind): add to the
\* first entry of that kind, or push a new one.
PoolAdd(pool, i, b) ==
    IF i > Len(pool)
    THEN Append(pool, [ty |-> b.descriptor_type,
                       descriptor_count |-> b.descriptor_count])
    ELSE IF pool[i].ty = b.descriptor_type
         THEN [pool EXCEPT ![i].descriptor_count = @ + b.descriptor_count]
         ELSE PoolAdd(pool, i + 1, b)

RECURSIVE PoolFold(_, _, _)
PoolFold(pool, bindings, i) ==
    IF i > Len(bindings) THEN pool
    ELSE PoolFold(PoolAdd(pool, 1, bindings[i]), bindings, i + 1)

RECURSIVE PoolSizes(_, _, _, _)
\* The closure runs set by set, (0..set_count), binding by binding.
PoolSizes(map, set, set_count, pool) ==
    IF set >= set_count THEN pool
    ELSE PoolSizes(map, set + 1, set_count,
                   PoolFold(pool, SetBindings(map, set), 1))

create_descriptor_set_layouts(ss) ==
    LET m == MergeLoop(FlatMap(ss, 1), 1, <<>>, 0)
    IN  IF ~m.ok THEN [ok |-> FALSE, err |-> m.err]
        ELSE LET set_count == m.set_count + 1
             IN  [ok |-> TRUE,
                  layouts |-> [s \in 1..set_count |-> SetBindings(m.map, s - 1)],
                  pool_sizes |-> PoolSizes(m.map, 0, set_count, <<>>)]

(***************************************************************************)
(* The merge as a specification: the inputs are every list of at most      *)
(* MaxShaders shaders of ShaderPool together with every reordering of it.  *)
(***************************************************************************)
IndexPermutations(n) ==
    {p \in [1..n -> 1..n] : \A i, j \in 1..n : p[i] = p[j] => i = j}

ShaderLists == UNION {[1..n -> ShaderPool] : n \in 0..MaxShaders}

Reorderings(ss) ==
    {[i \in 1..Len(ss) |-> ss[p[i]]] : p \in IndexPermutations(Len(ss))}

DslInit ==
    /\ dslShaders \in ShaderLists
    /\ dslPermuted \in Reorderings(dslShaders)
    /\ dslResult = <<>>

DslIdle ==
    /\ dslShaders = <<>>
    /\ dslPermuted = <<>>
    /\ dslResult = <<>>

\* Both registration orders are handed to create_descriptor_set_layouts.
MergeBoth ==
    /\ dslResult = <<>>
    /\ dslResult' = <<create_descriptor_set_layouts(dslShaders),
                      create_descriptor_set_layouts(dslPermuted)>>
    /\ UNCHANGED <<dslShaders, dslPermuted>>
    /\ UNCHANGED <<varsRender, varsOther, varsFrames, varsPipes, extent, varsWin>>

(***************************************************************************)
(* The frame orchestrator: RenderBackend over the interop swapchain.       *)
(***************************************************************************)
FRAMES_IN_FLIGHT == 1
\* image_count of dxgi_swapchain
image_count == 3

\* Bounds of the model.
MaxTokens == 2
MaxDraws == 2
MaxResizes == 1

\* Window::start_with_thread(1280, 720) gives the surface its first extent.
InitialExtent == <<1280, 720>>
Extents == {InitialExtent, <<640, 480>>}

\* Frame::in_flight is an Option<vk::Fence>.
NoFence == <<>>
Some(x) == <<x>>

\* in_flight_fences: one fence per slot, named by its position.
in_flight_fences == [s \in 0..(FRAMES_IN_FLIGHT - 1) |-> s]

\* DxgiSwapchain::create_images: one framebuffer per image, new handles.
create_images(g) == [i \in 1..image_count |-> <<"fb", g, i - 1>>]

\* RenderBackend::new: frames zip framebuffers with command buffers.
NewFrames ==
    [i \in 1..image_count |->
        [fb |-> create_images(0)[i], cb |-> i - 1, in_flight |-> NoFence]]

\* vulkan::pipeline::create_graphics_pipeline: the shader pair, the layouts
\* the pipeline layout is built from, the viewport extent, the push-constant
\* size; `h` names the new pipeline object.
create_graphics_pipeline(vs, fs, layouts, ext, push_constant_bytes, h) ==
    [shaders |-> <<vs, fs>>, set_layouts |-> layouts, extent |-> ext,
     push_constant_bytes |-> push_constant_bytes, handle |-> h]

\* vulkan::pipeline::create_compute_pipeline
create_compute_pipeline(cs, layouts, push_constant_bytes, h) ==
    [shaders |-> <<cs>>, set_layouts |-> layouts,
     push_constant_bytes |-> push_constant_bytes, handle |-> h]

\* The layout handles of one create_descriptor_set_layouts call.
LayoutHandles(r, serial) ==
    [s \in 1..Len(r.layouts) |->
        [handle |-> <<"dsl", serial, s - 1>>, bindings |-> r.layouts[s]]]

\* device.wait_for_fence(fence): returns once the fence is signaled.
wait_for_fence_skipped(f) == TRUE
wait_for_fence(f) == fenceSignaled[f]

\* device_wait_idle(): returns once no submission is pending.
device_wait_idle_skipped == TRUE
device_wait_idle == gpuQueue = <<>>

\* unsafe { VALUE += 1 }: the static counter of a timeline semaphore moves
\* on after each use.
NextValueStuck(value) == value
NextValue(value) == value + 1

\* The SwapchainImage acquire_next_image returns.
SwapchainImage(index) ==
    [index |-> index, acquire_semaphore |-> "acquire_semaphore",
     rendering_finished_semaphore |-> "rendering_finished_semaphore"]

RemoveAt(s, k) == [i \in 1..(Len(s) - 1) |-> IF i < k THEN s[i] ELSE s[i + 1]]

\* RenderBackend::begin_frame, with DxgiSwapchain::acquire_next_image.
BeginFrame ==
    /\ backendState = "live"
    /\ Len(tokens) < MaxTokens
    /\ LET fence == in_flight_fences[frame]
           index == swapIndex
           fr == frames[index + 1]
       IN  /\ wait_for_fence(fence)
           /\ acquireSem' = ACQUIRE_VALUE
           /\ ACQUIRE_VALUE' = NextValue(ACQUIRE_VALUE)
           /\ fr.in_flight # NoFence => wait_for_fence(fr.in_flight[1])
           /\ frames' = [frames EXCEPT ![index + 1].in_flight = Some(fence)]
           /\ tokens' = Append(tokens, SwapchainImage(index))
    /\ beginsSinceDraw' = IF beginsSinceDraw < 2 THEN beginsSinceDraw + 1 ELSE 2
    /\ UNCHANGED <<backendState, fenceSignaled, frame, swapIndex, gen, recorded,
                   gpuQueue, DRAW_VALUE, finishedSem, lastCalls, presentLog, dxgi,
                   drawResult, drawError, nDraw>>
    /\ UNCHANGED <<varsDsl, varsRender, varsOther, varsPipes, extent, varsWin>>

\* Render::draw_frame between begin_frame and draw_frame: the command buffer
\* of the acquired frame is recorded against the frame's framebuffer and the
\* renderer's two pipelines.
Record(k) ==
    /\ backendState = "live"
    /\ k \in 1..Len(tokens)
    /\ Len(graphics_pipelines) > 0 /\ Len(compute_pipelines) > 0
    /\ LET fr == frames[tokens[k].index + 1]
       IN  recorded' = [recorded EXCEPT ![fr.cb] =
                           {fr.fb, graphics_pipelines[1].handle,
                            compute_pipelines[1].handle}]
    /\ UNCHANGED <<backendState, fenceSignaled, frames, frame, swapIndex, gen,
                   tokens, gpuQueue, ACQUIRE_VALUE, DRAW_VALUE, acquireSem,
                   finishedSem, lastCalls, presentLog, dxgi, drawResult, drawError,
                   nDraw, beginsSinceDraw>>
    /\ UNCHANGED <<varsDsl, varsRender, varsOther, varsPipes, extent, varsWin>>

\* The steps of draw_frame, in program order: three device calls, then the
\* slot index moves on.
ResetCall(fence) == [op |-> "reset_fences", fence |-> fence]
SubmitCall(cb, img, val, fence) ==
    [op |-> "queue_submit", cb |-> cb,
     wait |-> <<img.acquire_semaphore, val>>,
     signal |-> <<img.rendering_finished_semaphore, val>>,
     fence |-> fence]
PresentCall(img) == [op |-> "present", image |-> img]

\* DxgiSwapchain::present(_next_image): the calls it makes, in order.
\* wait_semaphores is followed by `?`: when it fails, Present is not called.
WaitSemaphores(semaphore, ok) ==
    [op |-> "wait_semaphores", semaphore |-> semaphore, value |-> 0,
     timeout |-> 0, result |-> IF ok THEN "Ok" ELSE "Err"]
ForeignPresent == [op |-> "Present", sync_interval |-> 0]
PresentBeforeWait(img, ok) ==
    <<ForeignPresent>> \o
    <<WaitSemaphores(img.rendering_finished_semaphore, ok)>>
present(img, ok) ==
    <<WaitSemaphores(img.rendering_finished_semaphore, ok)>> \o
    (IF ok THEN <<ForeignPresent>> ELSE <<>>)
\* self.frame = (self.frame + 1) % FRAMES_IN_FLIGHT
AdvanceSlot == [op |-> "advance_slot"]

DrawFrameCallsPresentFirst(cb, img, val, fence) ==
    <<PresentCall(img), ResetCall(fence), SubmitCall(cb, img, val, fence),
      AdvanceSlot>>
DrawFrameCalls(cb, img, val, fence) ==
    <<ResetCall(fence), SubmitCall(cb, img, val, fence), PresentCall(img),
      AdvanceSlot>>

\* A draw_frame that carries on after a failed queue_submit.
CallsMadeIgnoringSubmit(failAt) ==
    CASE failAt = "reset_fences" -> 0
      [] failAt = "present" -> 2
      [] OTHER -> 4

\* How many of the steps a draw_frame performs before it returns: all of
\* them, or those before the device call that fails (each is followed by `?`).
CallsMade(failAt) ==
    CASE failAt = "reset_fences" -> 0
      [] failAt = "queue_submit" -> 1
      [] failAt = "present" -> 2
      [] OTHER -> 4

FailPoints == {"none", "reset_fences", "queue_submit", "present"}

\* RenderBackend::draw_frame(next_image), with DxgiSwapchain::present.
DrawFrame(k, failAt) ==
    /\ backendState = "live"
    /\ k \in 1..Len(tokens)
    /\ nDraw < MaxDraws
    /\ LET next_image == tokens[k]
           fr == frames[next_image.index + 1]
           fence == in_flight_fences[frame]
           val == DRAW_VALUE
           calls == DrawFrameCalls(fr.cb, next_image, val, fence)
           made == SubSeq(calls, 1, CallsMade(failAt))
           did(op) == \E i \in 1..Len(made) : made[i].op = op
       IN  /\ lastCalls' = made
           /\ presentLog' =
                 IF Len(made) >= 2
                 THEN present(next_image, failAt # "present")
                 ELSE <<>>
           /\ drawResult' = IF failAt = "none" THEN "Ok" ELSE "Err"
           /\ drawError' = failAt
           /\ fenceSignaled' =
                 IF did("reset_fences")
                 THEN [fenceSignaled EXCEPT ![fence] = FALSE]
                 ELSE fenceSignaled
           /\ gpuQueue' =
                 IF did("queue_submit")
                 THEN Append(gpuQueue,
                             [image |-> next_image.index, cb |-> fr.cb,
                              refs |-> recorded[fr.cb], fence |-> fence,
                              wait |-> val, signal |-> val])
                 ELSE gpuQueue
           /\ DRAW_VALUE' = IF did("queue_submit") THEN NextValue(val) ELSE val
           \* IDXGISwapChain::Present shows the current back buffer and moves
           \* on to the next one (SwapEffect::FlipSequential).
           /\ swapIndex' =
                 IF did("present") THEN (swapIndex + 1) % image_count
                 ELSE swapIndex
           /\ frame' =
                 IF did("advance_slot") THEN (frame + 1) % FRAMES_IN_FLIGHT
                 ELSE frame
    /\ tokens' = RemoveAt(tokens, k)
    /\ nDraw' = nDraw + 1
    /\ beginsSinceDraw' = 0
    /\ UNCHANGED <<backendState, frames, gen, recorded, ACQUIRE_VALUE,
                   acquireSem, finishedSem, dxgi>>
    /\ UNCHANGED <<varsDsl, varsRender, varsOther, varsPipes, extent, varsWin>>

\* The GPU finishes the oldest pending submission: its wait on the acquire
\* semaphore is satisfied, it signals the rendering-finished semaphore and
\* the fence it was submitted with.
GpuComplete ==
    /\ gpuQueue # <<>>
    /\ LET s == Head(gpuQueue)
       IN  /\ acquireSem >= s.wait
           /\ finishedSem' = IF s.signal > finishedSem THEN s.signal
                             ELSE finishedSem
           /\ fenceSignaled' = [fenceSignaled EXCEPT ![s.fence] = TRUE]
    /\ gpuQueue' = Tail(gpuQueue)
    /\ UNCHANGED <<backendState, frames, frame, swapIndex, gen, tokens,
                   recorded, ACQUIRE_VALUE, DRAW_VALUE, acquireSem, lastCalls,
                   presentLog, dxgi,
                   drawResult, drawError, nDraw, beginsSinceDraw>>
    /\ UNCHANGED <<varsDsl, varsRender, varsOther, varsPipes, extent, varsWin>>

\* The interop swapchain's foreign side. BackBuffer(g, i) is buffer i of the
\* DXGI swapchain after g resizes, SharedHandle(g, i) the NT handle
\* create_images opens for it. A COM object counts its references:
\* GetBuffer and QueryInterface (cast) each add one, Release (destroy)
\* gives one back.
BackBuffer(g, i) == <<"buffer", g, i>>
SharedHandle(g, i) == <<"handle", g, i>>

GetBufferCall(b) == [op |-> "GetBuffer", resource |-> b]
CastCall(b) == [op |-> "QueryInterface", resource |-> b]
CreateSharedHandleCall(h, b) ==
    [op |-> "CreateSharedHandle", handle |-> h, resource |-> b]
ImportImageCall(fb, h) ==
    [op |-> "import_image", framebuffer |-> fb, handle |-> h]
ReleaseCall(b) == [op |-> "Release", resource |-> b]
CloseHandleCall(h) == [op |-> "CloseHandle", handle |-> h]
DropFramebufferCall(fb) == [op |-> "drop_framebuffer", framebuffer |-> fb]
ResizeBuffersCall(e) == [op |-> "ResizeBuffers", extent |-> e]

\* One iteration of create_images' closure for image i: every step between
\* CreateSharedHandle and the final push is followed by `?`, so a failing
\* iteration stops after the handle was pushed.
CreateImageCalls(g, i, complete) ==
    <<GetBufferCall(BackBuffer(g, i)), CastCall(BackBuffer(g, i)),
      CreateSharedHandleCall(SharedHandle(g, i), BackBuffer(g, i))>> \o
    (IF complete
     THEN <<ImportImageCall(<<"fb", g, i>>, SharedHandle(g, i)),
            ReleaseCall(BackBuffer(g, i))>>
     ELSE <<>>)

RECURSIVE CreateImagesFrom(_, _, _)
\* (0..self.image_count).map(..).collect(): failImage is the image whose
\* iteration fails (1..image_count), or 0. The framebuffers collected before
\* a failure are dropped with the iterator's result.
CreateImagesFrom(g, i, failImage) ==
    IF i = image_count THEN <<>>
    ELSE IF failImage = i + 1
         THEN CreateImageCalls(g, i, FALSE) \o
              [k \in 1..i |-> DropFramebufferCall(<<"fb", g, k - 1>>)]
         ELSE CreateImageCalls(g, i, TRUE) \o
              CreateImagesFrom(g, i + 1, failImage)

CreateImagesCalls(g, failImage) == CreateImagesFrom(g, 0, failImage)

\* DxgiSwapchain::recreate: wait, close the handles, release the
\* resources, then ResizeBuffers.
DxgiRecreateCallsResizeFirst(d, e) ==
    <<[op |-> "device_wait_idle"], ResizeBuffersCall(e)>> \o
    [k \in 1..Len(d.shared_handles) |-> CloseHandleCall(d.shared_handles[k])]
    \o [k \in 1..Len(d.resources) |-> ReleaseCall(d.resources[k])]
DxgiRecreateCalls(d, e) ==
    <<[op |-> "device_wait_idle"]>> \o
    [k \in 1..Len(d.shared_handles) |-> CloseHandleCall(d.shared_handles[k])]
    \o [k \in 1..Len(d.resources) |-> ReleaseCall(d.resources[k])]
    \o <<ResizeBuffersCall(e)>>

\* self.frames.drain(..).map(|f| (f.cb, f.in_flight)): the framebuffer of
\* each old frame, with the image imported for it, is dropped here.
DrainFramesCalls(fs) == [k \in 1..Len(fs) |-> DropFramebufferCall(fs[k].fb)]

RefsOf(d, b) == IF b \in DOMAIN d.refs THEN d.refs[b] ELSE 0
SetRefs(d, b, n) ==
    [x \in DOMAIN d.refs \cup {b} |-> IF x = b THEN n ELSE d.refs[x]]

\* What a call does to the handles, the reference counts and the imported
\* images. ResizeBuffers is remembered with what was still open then.
ApplyCall(d, c) ==
    CASE c.op \in {"GetBuffer", "QueryInterface"} ->
            [d EXCEPT !.refs = SetRefs(d, c.resource, RefsOf(d, c.resource) + 1)]
      [] c.op = "Release" ->
            IF RefsOf(d, c.resource) = 0
            THEN [d EXCEPT !.misuse = TRUE]
            ELSE [d EXCEPT
                    !.refs = SetRefs(d, c.resource, RefsOf(d, c.resource) - 1)]
      [] c.op = "CreateSharedHandle" ->
            [d EXCEPT !.open = @ \cup {c.handle}]
      [] c.op = "CloseHandle" ->
            IF c.handle \in d.open
            THEN [d EXCEPT !.open = @ \ {c.handle}]
            ELSE [d EXCEPT !.misuse = TRUE]
      [] c.op = "import_image" ->
            [d EXCEPT !.images = @ \cup {c.framebuffer}]
      [] c.op = "drop_framebuffer" ->
            [d EXCEPT !.images = @ \ {c.framebuffer}]
      [] c.op = "ResizeBuffers" ->
            [d EXCEPT !.atResize =
                <<[open |-> d.open,
                   outstanding |->
                       {b \in DOMAIN d.refs : d.refs[b] > 0},
                   images |-> d.images]>>]
      [] OTHER -> d

RECURSIVE ApplyCalls(_, _)
ApplyCalls(d, calls) ==
    IF calls = <<>> THEN d
    ELSE ApplyCalls(ApplyCall(d, Head(calls)), Tail(calls))

\* self.shared_handles and self.resources after create_images: a handle is
\* pushed right after CreateSharedHandle, a resource at the end of a
\* complete iteration.
HandlesPushed(g, failImage) ==
    [k \in 1..(IF failImage = 0 THEN image_count ELSE failImage) |->
        SharedHandle(g, k - 1)]
ResourcesPushed(g, failImage) ==
    [k \in 1..(IF failImage = 0 THEN image_count ELSE failImage - 1) |->
        BackBuffer(g, k - 1)]

EmptyDxgi ==
    [shared_handles |-> <<>>, resources |-> <<>>, open |-> {},
     refs |-> <<>>, images |-> {}, atResize |-> <<>>, misuse |-> FALSE,
     log |-> <<>>]

\* dxgi_swapchain(..) followed by create_images in RenderBackend::new.
NewDxgi ==
    [ApplyCalls(EmptyDxgi, CreateImagesCalls(0, 0)) EXCEPT
        !.shared_handles = HandlesPushed(0, 0),
        !.resources = ResourcesPushed(0, 0),
        !.log = CreateImagesCalls(0, 0)]

\* The calls of RenderBackend::recreate_swapchain that touch the swapchain's
\* images: the drain of the frames, DxgiSwapchain::recreate, create_images,
\* and, when a pipeline cannot be rebuilt, the drop of the new framebuffers.
RecreateSwapchainCalls(d, fs, g, e, ok, failImage) ==
    DrainFramesCalls(fs) \o DxgiRecreateCalls(d, e) \o
    CreateImagesCalls(g, failImage) \o
    (IF ok \/ failImage # 0 THEN <<>>
     ELSE [k \in 1..image_count |-> DropFramebufferCall(<<"fb", g, k - 1>>)])

DxgiAfterRecreate(d, fs, g, e, ok, failImage) ==
    LET calls == RecreateSwapchainCalls(d, fs, g, e, ok, failImage)
    IN  [ApplyCalls([d EXCEPT !.atResize = <<>>], calls) EXCEPT
            !.shared_handles = HandlesPushed(g, failImage),
            !.resources = ResourcesPushed(g, failImage),
            !.log = calls]

\* std::iter::zip(framebuffers, old_frames).map(|(fb, (cb, in_flight))| ..)
FramesZipFenceCleared(framebuffers, old_frames) ==
    [i \in 1..(IF Len(framebuffers) < Len(old_frames) THEN Len(framebuffers)
               ELSE Len(old_frames)) |->
        [fb |-> framebuffers[i], cb |-> old_frames[i][1],
         in_flight |-> NoFence]]
FramesZip(framebuffers, old_frames) ==
    [i \in 1..(IF Len(framebuffers) < Len(old_frames) THEN Len(framebuffers)
               ELSE Len(old_frames)) |->
        [fb |-> framebuffers[i], cb |-> old_frames[i][1],
         in_flight |-> old_frames[i][2]]]

\* The body of recreate_swapchain's loop over graphics_pipelines.
RebuildPipelineStaleExtent(p, layouts, ext, h) ==
    create_graphics_pipeline(p.shaders[1], p.shaders[2], layouts, p.extent,
                             p.push_constant_bytes, h)
RebuildPipeline(p, layouts, ext, h) ==
    create_graphics_pipeline(p.shaders[1], p.shaders[2], layouts, ext,
                             p.push_constant_bytes, h)

\* RenderBackend::recreate_swapchain(width, height), with
\* DxgiSwapchain::recreate and create_images. `ok` is whether create_images
\* succeeds; when it does not, the function returns with the frames drained.
\* failImage is the image at which create_images fails (0: it fails before
\* the first image or not at all).
RecreateSwapchain(width, height, ok, failImage) ==
    /\ backendState = "live"
    /\ ok => failImage = 0
    /\ gen < MaxResizes
    /\ device_wait_idle
    /\ LET old_frames ==
               [i \in 1..Len(frames) |-> <<frames[i].cb, frames[i].in_flight>>]
           framebuffers == create_images(gen + 1)
       IN  /\ extent' = <<width, height>>
           \* ResizeBuffers: the first buffer is the current back buffer again.
           /\ swapIndex' = 0
           /\ IF ok
              THEN /\ graphics_pipelines' =
                        [i \in 1..Len(graphics_pipelines) |->
                            RebuildPipeline(graphics_pipelines[i],
                                            descriptor_set_layouts, extent',
                                            <<"gp", i - 1, gen + 1>>)]
                   /\ frames' = FramesZip(framebuffers, old_frames)
                   /\ backendState' = "live"
              ELSE /\ graphics_pipelines' = graphics_pipelines
                   /\ frames' = <<>>
                   /\ backendState' = "failed"
    /\ dxgi' = DxgiAfterRecreate(dxgi, frames, gen + 1, <<width, height>>,
                                 ok, failImage)
    /\ gen' = gen + 1
    /\ UNCHANGED <<fenceSignaled, frame, tokens, recorded, gpuQueue,
                   ACQUIRE_VALUE, DRAW_VALUE, acquireSem, finishedSem,
                   lastCalls, presentLog, drawResult, drawError,
                   nDraw, beginsSinceDraw>>
    /\ UNCHANGED <<shaders, descriptor_set_layouts, layoutSerial, layoutLog,
                   render_pass,
                   compute_pipelines>>
    /\ UNCHANGED <<varsDsl, varsRender, varsOther, varsWin>>

\* Drop of Render: RenderBackend is its first field, so RenderBackend::drop
\* runs first, then the backend's fields and the renderer's other fields go.
\* destroy_descriptor_set_layout on every handle of the field, in order
\* (backend.rs:299-305 and :403-407), and the create_descriptor_set_layout
\* calls behind a list of new handles.
DestroyLayoutCalls(layouts) ==
    [i \in 1..Len(layouts) |-> [op |-> "destroy", handle |-> layouts[i].handle]]
CreateLayoutCalls(layouts) ==
    [i \in 1..Len(layouts) |-> [op |-> "create", handle |-> layouts[i].handle]]

Drop ==
    /\ backendState \in {"live", "failed"}
    /\ device_wait_idle
    /\ backendState' = "dropped"
    /\ frames' = <<>>
    /\ graphics_pipelines' = <<>>
    /\ compute_pipelines' = <<>>
    /\ descriptor_set_layouts' = <<>>
    /\ layoutLog' = layoutLog \o DestroyLayoutCalls(descriptor_set_layouts)
    \* impl Drop for DxgiSwapchain destroys the two semaphores only.
    /\ dxgi' = ApplyCalls(dxgi, DrainFramesCalls(frames))
    /\ UNCHANGED <<fenceSignaled, frame, swapIndex, gen, tokens, recorded,
                   gpuQueue, ACQUIRE_VALUE, DRAW_VALUE, acquireSem,
                   finishedSem, lastCalls, presentLog, drawResult, drawError,
                   nDraw, beginsSinceDraw>>
    /\ UNCHANGED <<shaders, layoutSerial, render_pass>>
    /\ UNCHANGED <<varsDsl, varsRender, varsOther, extent, varsWin>>

(***************************************************************************)
(* Shader registration and pipeline creation.                              *)
(***************************************************************************)
MaxRegistered == 3
MaxPipelines == 2
\* Render::new creates one compute pipeline and allocates one descriptor set.
MaxCompute == 1
MaxAllocs == 1
\* allocate_descriptor_set calls of one backend, for callers other than
\* Render::new
MaxLayoutAllocs == 2

\* The shaders offered for registration; each is registered at most once.
RegisterPool == {COMPUTE_SHADER, VERTEX_SHADER, FRAGMENT_SHADER,
                 FB_COMPUTE_SHADER}

\* Push-constant sizes handed to create_graphics_pipeline; the compute
\* pipelines are created with size 0, as Render::new creates its own.
PushConstantSizes == {0, 16}

\* RenderBackend::register_shader
RegisterShader(shader) ==
    /\ backendState = "live"
    /\ Len(shaders) < MaxRegistered
    /\ shader \notin Range(shaders)
    /\ shaders' = Append(shaders, shader)
    /\ UNCHANGED <<descriptor_set_layouts, layoutSerial, layoutLog, render_pass,
                   compute_pipelines, graphics_pipelines>>
    /\ UNCHANGED <<varsDsl, varsRender, varsOther, varsFrames, extent, varsWin>>

\* Where allocate_descriptor_set may return early besides a conflict: at
\* create_descriptor_pool or at allocate_descriptor_sets.
AllocateFailures == {"none", "pool", "sets"}

\* RenderBackend::allocate_descriptor_set: the old layouts are destroyed, the
\* layouts are computed again from every registered shader and created, the
\* pool and the set are made, and only then are the new layouts stored. On
\* a conflict, or when a later call fails, the function returns with the
\* field as it was.
AllocateDescriptorSet(failAt) ==
    /\ backendState = "live"
    /\ layoutSerial < MaxLayoutAllocs
    /\ LET r == create_descriptor_set_layouts(shaders)
           destroyed == DestroyLayoutCalls(descriptor_set_layouts)
           new == LayoutHandles(r, layoutSerial + 1)
       IN  IF r.ok
           THEN /\ descriptor_set_layouts' =
                      IF failAt = "none" THEN new ELSE descriptor_set_layouts
                /\ layoutLog' = layoutLog \o destroyed \o CreateLayoutCalls(new)
                /\ layoutSerial' = layoutSerial + 1
           ELSE /\ descriptor_set_layouts' = descriptor_set_layouts
                /\ layoutLog' = layoutLog \o destroyed
                /\ layoutSerial' = layoutSerial + 1
    /\ UNCHANGED <<shaders, render_pass, compute_pipelines, graphics_pipelines>>
    /\ UNCHANGED <<varsDsl, varsRender, varsOther, varsFrames, extent, varsWin>>

\* The one allocate_descriptor_set call of Render::new, its device calls
\* succeeding.
AllocateOnce ==
    /\ layoutSerial < MaxAllocs
    /\ AllocateDescriptorSet("none")

\* RenderBackend::create_graphics_pipeline(vs, fs, push_constant_size); the
\* handles are indices into `shaders`.
CreateGraphicsPipeline(vs, fs, push_constant_size) ==
    /\ backendState = "live"
    /\ Len(graphics_pipelines) < MaxPipelines
    /\ vs \in 0..(Len(shaders) - 1) /\ fs \in 0..(Len(shaders) - 1)
    /\ shaders[vs + 1].stage = "VERTEX" /\ shaders[fs + 1].stage = "FRAGMENT"
    /\ graphics_pipelines' =
          Append(graphics_pipelines,
                 create_graphics_pipeline(shaders[vs + 1], shaders[fs + 1],
                     descriptor_set_layouts, extent, push_constant_size,
                     <<"gp", Len(graphics_pipelines), gen>>))
    /\ UNCHANGED <<shaders, descriptor_set_layouts, layoutSerial, layoutLog,
                   render_pass,
                   compute_pipelines>>
    /\ UNCHANGED <<varsDsl, varsRender, varsOther, varsFrames, extent, varsWin>>

\* RenderBackend::create_compute_pipeline(cs, push_constant_size)
CreateComputePipeline(cs, push_constant_size) ==
    /\ backendState = "live"
    /\ Len(compute_pipelines) < MaxCompute
    /\ cs \in 0..(Len(shaders) - 1)
    /\ shaders[cs + 1].stage = "COMPUTE"
    /\ compute_pipelines' =
          Append(compute_pipelines,
                 create_compute_pipeline(shaders[cs + 1],
                     descriptor_set_layouts, push_constant_size,
                     <<"cp", Len(compute_pipelines)>>))
    /\ UNCHANGED <<shaders, descriptor_set_layouts, layoutSerial, layoutLog,
                   render_pass,
                   graphics_pipelines>>
    /\ UNCHANGED <<varsDsl, varsRender, varsOther, varsFrames, extent, varsWin>>

(***************************************************************************)
(* The window thread (window_proc behind the message pump), the client     *)
(* thread (gui::run, App::handle_window_event) and the main thread.        *)
(***************************************************************************)
\* Most events and messages in flight at once.
MaxQueue == 2

Keys == {"Escape", "Other"}

\* WindowEvent::Resize(width, height, Some(tx))
ResizeEvent(w, h) == [type |-> "Resize", width |-> w, height |-> h]
KeyboardEvent(k) == [type |-> "Keyboard", key |-> k]
QuitEvent == [type |-> "Quit"]
RedrawRequestedEvent == [type |-> "RedrawRequested"]

\* The oneshot channel made by the WM_SIZE handler; `size` remembers the
\* Resize event its sender travels in.
NoAck == [state |-> "none", size |-> <<>>]

ClientGone == clientPc \in {"exited", "panicked"}

\* WM_SIZE, first delivery: FLAG is set and the handler returns 0.
WmSizeFirst ==
    /\ winPc = "pump"
    /\ ~FLAG
    /\ FLAG' = TRUE
    /\ UNCHANGED <<winPc, winQueue, ack, clientPc, clientEvent, drawnExtent,
                   toServer, mainPc>>
    /\ UNCHANGED <<varsDsl, varsRender, varsOther, varsFrames, varsPipes, extent>>

\* WM_SIZE: state.tx.send(WindowEvent::Resize(width, height, Some(tx))), then
\* the handler sits in rx.recv(). send(..).unwrap() panics once the client
\* thread has dropped the receiver.
WmSizeSend(w, h) ==
    /\ winPc = "pump"
    /\ FLAG
    /\ IF ClientGone
       THEN /\ winPc' = "panicked"
            /\ UNCHANGED <<winQueue, ack>>
       ELSE /\ winQueue' = Append(winQueue, ResizeEvent(w, h))
            /\ ack' = [state |-> "open", size |-> <<w, h>>]
            /\ winPc' = "wm_size"
    /\ UNCHANGED <<FLAG, clientPc, clientEvent, drawnExtent, toServer, mainPc>>
    /\ UNCHANGED <<varsDsl, varsRender, varsOther, varsFrames, varsPipes, extent>>

\* rx.recv() returns Ok: the handler goes on and returns to the platform.
WmSizeReturn ==
    /\ winPc = "wm_size"
    /\ ack.state = "sent"
    /\ winPc' = "pump"
    /\ ack' = NoAck
    /\ UNCHANGED <<FLAG, winQueue, clientPc, clientEvent, drawnExtent,
                   toServer, mainPc>>
    /\ UNCHANGED <<varsDsl, varsRender, varsOther, varsFrames, varsPipes, extent>>

\* rx.recv() returns Err, the sender was dropped: unwrap() panics.
WmSizeRecvErr ==
    /\ winPc = "wm_size"
    /\ ack.state = "dropped"
    /\ winPc' = "panicked"
    /\ UNCHANGED <<FLAG, winQueue, ack, clientPc, clientEvent, drawnExtent,
                   toServer, mainPc>>
    /\ UNCHANGED <<varsDsl, varsRender, varsOther, varsFrames, varsPipes, extent>>

\* A key message or WM_PAINT: the event is sent and the handler returns.
WmSendEvent(ev) ==
    /\ winPc = "pump"
    /\ Len(winQueue) + Len(toServer) < MaxQueue
    /\ IF ClientGone
       THEN winPc' = "panicked" /\ UNCHANGED winQueue
       ELSE winQueue' = Append(winQueue, ev) /\ UNCHANGED winPc
    /\ UNCHANGED <<FLAG, ack, clientPc, clientEvent, drawnExtent, toServer,
                   mainPc>>
    /\ UNCHANGED <<varsDsl, varsRender, varsOther, varsFrames, varsPipes, extent>>

\* WM_CLOSE / KAVI_WM_CLOSE, then WM_DESTROY: Quit is sent, PostQuitMessage
\* ends the message pump.
WmDestroy ==
    /\ winPc = "pump"
    /\ IF ClientGone
       THEN winPc' = "panicked" /\ UNCHANGED winQueue
       ELSE winQueue' = Append(winQueue, QuitEvent) /\ winPc' = "ended"
    /\ UNCHANGED <<FLAG, ack, clientPc, clientEvent, drawnExtent, toServer,
                   mainPc>>
    /\ UNCHANGED <<varsDsl, varsRender, varsOther, varsFrames, varsPipes, extent>>

\* The order of handle_window_event's Resize arm: resize, draw_frame, send.
AfterStepAckFirst(pc) ==
    CASE pc = "resize" -> "ack"
      [] pc = "ack" -> "draw"
      [] pc = "draw" -> "select"
AfterStepWithoutAck(pc) ==
    CASE pc = "resize" -> "draw"
      [] pc = "draw" -> "select"
      [] pc = "ack" -> "select"
AfterStep(pc) ==
    CASE pc = "resize" -> "draw"
      [] pc = "draw" -> "ack"
      [] pc = "ack" -> "select"

\* App::shutdown: self.tx.send(ClientMessage::Shutdown) on the unbounded
\* channel to the main thread.
shutdown_unsent(channel) == channel
shutdown(channel) == Append(channel, "Shutdown")

\* The client loop receives an event and handle_window_event matches on it.
ClientRecv ==
    /\ clientPc = "select"
    /\ winQueue # <<>>
    /\ LET event == Head(winQueue)
       IN  /\ clientEvent' = event
           /\ winQueue' = Tail(winQueue)
           /\ CASE event.type = "Resize" ->
                     clientPc' = "resize" /\ UNCHANGED toServer
                \* return true; the loop breaks; app.shutdown()
                [] event.type = "Quit" ->
                     /\ clientPc' = "exited"
                     /\ toServer' = shutdown(toServer)
                \* Escape closes the window; the other keys become commands
                [] event.type = "Keyboard" ->
                     /\ clientPc' = "select"
                     /\ toServer' = IF event.key = "Escape" THEN toServer
                                    ELSE Append(toServer, "Command")
                [] OTHER -> clientPc' = "select" /\ UNCHANGED toServer
    /\ UNCHANGED <<winPc, FLAG, ack, drawnExtent, mainPc>>
    /\ UNCHANGED <<varsDsl, varsRender, varsOther, varsFrames, varsPipes, extent>>

\* self.render.resize(width, height).unwrap(): the swapchain takes the new
\* extent; an Err panics the thread, which drops the event and its sender.
ClientResize(ok) ==
    /\ clientPc = "resize"
    /\ IF ok
       THEN /\ extent' = <<clientEvent.width, clientEvent.height>>
            /\ clientPc' = AfterStep("resize")
            /\ UNCHANGED ack
       ELSE /\ clientPc' = "panicked"
            /\ ack' = [ack EXCEPT !.state = "dropped"]
            /\ UNCHANGED extent
    /\ UNCHANGED <<winPc, FLAG, winQueue, clientEvent, drawnExtent, toServer,
                   mainPc>>
    /\ UNCHANGED <<varsDsl, varsRender, varsOther, varsFrames, varsPipes>>

\* self.render.draw_frame(&self.text).unwrap(): a frame is drawn at the
\* swapchain's extent.
ClientDraw(ok) ==
    /\ clientPc = "draw"
    /\ IF ok
       THEN /\ drawnExtent' = extent
            /\ clientPc' = AfterStep("draw")
            /\ UNCHANGED ack
       ELSE /\ clientPc' = "panicked"
            /\ ack' = [ack EXCEPT !.state =
                          IF @ = "open" THEN "dropped" ELSE @]
            /\ UNCHANGED drawnExtent
    /\ UNCHANGED <<winPc, FLAG, winQueue, clientEvent, toServer, mainPc>>
    /\ UNCHANGED <<varsDsl, varsRender, varsOther, varsFrames, varsPipes, extent>>

\* if let Some(tx) = tx { tx.send(()).unwrap() }
ClientAck ==
    /\ clientPc = "ack"
    /\ ack' = [ack EXCEPT !.state = "sent"]
    /\ clientPc' = AfterStep("ack")
    /\ UNCHANGED <<winPc, FLAG, winQueue, clientEvent, drawnExtent, toServer,
                   mainPc>>
    /\ UNCHANGED <<varsDsl, varsRender, varsOther, varsFrames, varsPipes, extent>>

\* main: the loop receives a ClientMessage and breaks on Shutdown.  With
\* the channel empty and its sender dropped by a panicked client thread,
\* recv gives Err and msg.unwrap() panics.
MainRecv ==
    /\ mainPc = "loop"
    /\ IF toServer # <<>>
       THEN /\ mainPc' = IF Head(toServer) = "Shutdown" THEN "done"
                         ELSE "loop"
            /\ toServer' = Tail(toServer)
       ELSE /\ clientPc = "panicked"
            /\ mainPc' = "panicked"
            /\ UNCHANGED toServer
    /\ UNCHANGED <<winPc, FLAG, winQueue, ack, clientPc, clientEvent,
                   drawnExtent>>
    /\ UNCHANGED <<varsDsl, varsRender, varsOther, varsFrames, varsPipes, extent>>

(***************************************************************************)
(* The frame composer: Render::update_buffer and the dispatch that         *)
(* Render::draw_frame records.                                             *)
(***************************************************************************)
\* Longest text, and the number of CharEntry values the text buffer holds
\* (Render::new makes room for 10000; the model keeps the buffer short so
\* that texts on both sides of the limit occur).
MaxText == 5
TextBufferEntries == 4

\* size_of::<CharEntry>(): four u32 fields, repr(C).
SizeOfCharEntry == 16

Chars == {"a", "b", "c", "\n", "?"}
Texts == UNION {[1..n -> Chars] : n \in 0..MaxText}

\* GlyphAtlas::idx_to_coords
ColumnMajorCoords(a, idx) ==
    LET row_length == a.dims[1] \div a.glyph_dims[1]
    IN  <<idx \div row_length, idx % row_length>>
idx_to_coords(a, idx) ==
    LET row_length == a.dims[1] \div a.glyph_dims[1]
    IN  <<idx % row_length, idx \div row_length>>

\* GlyphAtlas::get: None is <<>>, Some(coords) is <<coords>>.
AtlasGet(a, c) ==
    IF c \in DOMAIN a.map THEN <<idx_to_coords(a, a.map[c])>> ELSE <<>>

\* The atlases of the frame composer: 8x8 glyphs in a 16x16 texture, with
\* glyphs for a, b, c, and with or without a glyph for the newline.
TextAtlases ==
    {[dims |-> <<16, 16>>, glyph_dims |-> <<8, 8>>, map |-> m] :
        m \in {[c \in {"a", "b", "c"} |->
                   CASE c = "a" -> 0 [] c = "b" -> 1 [] OTHER -> 2],
               [c \in {"a", "b", "c", "\n"} |->
                   CASE c = "a" -> 0 [] c = "b" -> 1 [] c = "c" -> 2
                     [] OTHER -> 3]}}

\* What vkMapMemory answers.
VkMapResults == {"SUCCESS", "ERROR_MEMORY_MAP_FAILED"}

OutsideLimits == "attempt to map memory outside of buffer limits"

\* Buffer::map_memory(start, count) for elements of size size_of_t, with the
\* answer vk of vkMapMemory: the ensure! error, or the device call with its
\* offset and size in bytes and then vkMapMemory's error or Ok with a slice
\* of `count` elements.  The arithmetic is in u64; the model's values stay
\* far below that range.
map_memory_unchecked(buffer, start, count, size_of_t, vk) ==
    IF vk # "SUCCESS"
    THEN [ok |-> FALSE, err |-> vk, len |-> 0,
          device |-> <<[offset |-> size_of_t * start,
                        size |-> size_of_t * count]>>]
    ELSE [ok |-> TRUE, err |-> "", len |-> count,
          device |-> <<[offset |-> size_of_t * start,
                        size |-> size_of_t * count]>>]
map_memory(buffer, start, count, size_of_t, vk) ==
    IF ~((start + count) * size_of_t <= buffer.size)
    THEN [ok |-> FALSE, err |-> OutsideLimits, len |-> 0, device |-> <<>>]
    ELSE IF vk # "SUCCESS"
    THEN [ok |-> FALSE, err |-> vk, len |-> 0,
          device |-> <<[offset |-> size_of_t * start,
                        size |-> size_of_t * count]>>]
    ELSE [ok |-> TRUE, err |-> "", len |-> count,
          device |-> <<[offset |-> size_of_t * start,
                        size |-> size_of_t * count]>>]

\* The None arm of update_buffer's match: the cursors after a character
\* without a glyph.
UnmappedCursor(c, x, y) ==
    IF c = "\n" THEN <<0, y + 1>> ELSE <<x, y>>

RECURSIVE UpdateLoop(_, _, _, _, _, _)
\* The loop of update_buffer over text.chars(): `chars` is the mapped slice
\* as written so far, chars[n] the next entry (n = Len(chars)).
UpdateLoop(a, t, i, x, y, chars) ==
    IF i > Len(t) THEN chars
    ELSE LET e == AtlasGet(a, t[i])
         IN  IF e = <<>>
             THEN LET cur == UnmappedCursor(t[i], x, y)
                  IN  UpdateLoop(a, t, i + 1, cur[1], cur[2], chars)
             ELSE UpdateLoop(a, t, i + 1, x + 1, y,
                      Append(chars, [atlas_x |-> e[1][1], atlas_y |-> e[1][2],
                                     pos_x |-> x, pos_y |-> y]))

\* Render::update_buffer
update_buffer(a, buffer, t, vk) ==
    LET m == map_memory(buffer, 0, Len(t), SizeOfCharEntry, vk)
    IN  IF ~m.ok THEN [ok |-> FALSE, err |-> m.err, written |-> <<>>]
        ELSE [ok |-> TRUE, written |-> UpdateLoop(a, t, 1, 0, 0, <<>>)]

\* cb.dispatch(text.len_chars() as u32, 1, 1)
DispatchCount(t, written) == Len(t)

\* Render::draw_frame(text), the text path: update_buffer, then the command
\* buffer is recorded with the dispatch. An Err of update_buffer returns
\* before anything is recorded. (begin_frame and the backend's draw_frame
\* around it are the actions BeginFrame, Record and DrawFrame.)
RenderDrawFrame(vk) ==
    /\ updateResult = "none"
    /\ LET r == update_buffer(atlas, text_buffer, text, vk)
       IN  /\ text_buffer' = [text_buffer EXCEPT !.written = r.written]
           /\ updateResult' = IF r.ok THEN "Ok" ELSE r.err
           /\ dispatch' = IF r.ok THEN <<DispatchCount(text, r.written)>>
                          ELSE <<>>
    /\ UNCHANGED <<text, atlas, mapCall, mapResult>>
    /\ UNCHANGED <<varsDsl, varsAtlas, varsOther, varsFrames, varsPipes, extent, varsWin>>

\* A call of Buffer::map_memory::<T>(start, count) on its own.
NotCalled == [ok |-> FALSE, err |-> "not called", len |-> 0, device |-> <<>>]
MapMemory ==
    /\ mapResult = NotCalled
    /\ mapResult' = map_memory([size |-> mapCall.size], mapCall.start,
                               mapCall.count, mapCall.size_of_t, mapCall.vk)
    /\ UNCHANGED <<text, atlas, text_buffer, updateResult, dispatch, mapCall>>
    /\ UNCHANGED <<varsDsl, varsAtlas, varsOther, varsFrames, varsPipes, extent, varsWin>>

\* Render::new: create_storage_buffer(size_of::<CharEntry>() * entries)
NewTextBuffer == [size |-> SizeOfCharEntry * TextBufferEntries, written |-> <<>>]

\* The map_memory calls tried on their own: element sizes of u8, u32 and
\* CharEntry on the text buffer, up to MaxStart and MaxCount elements.
MaxStart == 3
MaxCount == 5
MapCalls ==
    [size : {NewTextBuffer.size}, start : 0..MaxStart, count : 0..MaxCount,
     size_of_t : {1, 4, SizeOfCharEntry}, vk : VkMapResults]
NoMapCall ==
    [size |-> NewTextBuffer.size, start |-> 0, count |-> 0,
     size_of_t |-> SizeOfCharEntry, vk |-> "SUCCESS"]

TextInit ==
    /\ text \in Texts
    /\ atlas \in TextAtlases
    /\ text_buffer = NewTextBuffer
    /\ updateResult = "none"
    /\ dispatch = <<>>
    /\ mapCall = NoMapCall
    /\ mapResult = NotCalled

\* Texts of a glyph character, the newline and a character without glyph.
MapTexts == UNION {[1..n -> {"a", "\n", "?"}] : n \in 0..MaxText}

\* Either a map_memory call on its own, or a text for update_buffer.
MapInit ==
    /\ atlas \in TextAtlases
    /\ text_buffer = NewTextBuffer
    /\ updateResult = "none"
    /\ dispatch = <<>>
    /\ mapResult = NotCalled
    /\ \/ text \in MapTexts /\ mapCall = NoMapCall
       \/ text = <<>> /\ mapCall \in MapCalls

TextIdle ==
    /\ text = <<>>
    /\ atlas = CHOOSE a \in TextAtlases : "\n" \notin DOMAIN a.map
    /\ text_buffer = NewTextBuffer
    /\ updateResult = "none"
    /\ dispatch = <<>>
    /\ mapCall = NoMapCall
    /\ mapResult = NotCalled

(***************************************************************************)
(* GlyphAtlas::new: the size of the atlas texture and the rasterization of *)
(* the glyphs into the staging buffer. The inputs keep every value far     *)
(* below the u32 range the code computes in.                               *)
(***************************************************************************)
\* Most glyphs in a font.
MaxGlyphs == 6
\* Widths and heights of the font's bounding box.
GlyphSizes == {1, 5, 8, 11}
\* Where the glyphs of a font have lit pixels: in every corner of their
\* cell, or in its first pixel only.
Inks == {"full", "first"}

Fonts ==
    [glyph_count : 1..MaxGlyphs, glyph_width : GlyphSizes,
     glyph_height : GlyphSizes, ink : Inks]

\* `as u16`
AsU16(x) == x % 65536

\* (x / glyph_width) * (x / glyph_height) >= glyph_count
WidthFitsStrictly(x, f) ==
    (x \div f.glyph_width) * (x \div f.glyph_height) > f.glyph_count
WidthFits(x, f) ==
    (x \div f.glyph_width) * (x \div f.glyph_height) >= f.glyph_count

RECURSIVE WidthFrom(_, _)
\* successors(Some(1), |&n| Some(2 * n)).find(..)
WidthFrom(x, f) == IF WidthFits(x, f) THEN x ELSE WidthFrom(2 * x, f)

texture_width(f) == WidthFrom(1, f)

glyphs_per_row(f) == texture_width(f) \div f.glyph_width

\* (glyph_count + glyphs_per_row - 1) / glyphs_per_row
rows_used(f) ==
    (f.glyph_count + glyphs_per_row(f) - 1) \div glyphs_per_row(f)

\* ((n / 2) + glyph_height - 1) / glyph_height < rows_used
HeightStopsUnhalved(n, f) ==
    (n + f.glyph_height - 1) \div f.glyph_height < rows_used(f)
HeightStops(n, f) ==
    ((n \div 2) + f.glyph_height - 1) \div f.glyph_height < rows_used(f)

RECURSIVE HeightFrom(_, _)
\* successors(Some(texture_width), |n| Some(n / 2)).find(..)
HeightFrom(n, f) == IF HeightStops(n, f) THEN n ELSE HeightFrom(n \div 2, f)

texture_height(f) == HeightFrom(texture_width(f), f)

\* tile_x = i % glyphs_per_line, tile_y = i / glyphs_per_line
Tile(i, f) == <<i % glyphs_per_row(f), i \div glyphs_per_row(f)>>

\* pixel_x, pixel_y and pixel_index of the pixel (x, y) of glyph i's cell
PixelIndex(i, x, y, f) ==
    LET pixel_x == f.glyph_width * Tile(i, f)[1] + x
        pixel_y == f.glyph_height * Tile(i, f)[2] + y
    IN  pixel_x + texture_width(f) * pixel_y

\* The pixel indices the rasterization loop writes for glyph i.
GlyphPixels(i, f) ==
    IF f.ink = "first" THEN {PixelIndex(i, 0, 0, f)}
    ELSE {PixelIndex(i, x, y, f) :
             x \in {0, f.glyph_width - 1}, y \in {0, f.glyph_height - 1}}

\* GlyphAtlas::new. data[pixel_index] panics when the index is not below
\* the length texture_width * texture_height of the mapped slice.
GlyphAtlasNew ==
    /\ glyphAtlas = <<>>
    /\ LET f == font
           len == texture_width(f) * texture_height(f)
           pixels == UNION {GlyphPixels(i, f) : i \in 0..(f.glyph_count - 1)}
       IN  glyphAtlas' =
             <<[state |-> IF \A px \in pixels : px < len THEN "built"
                          ELSE "panicked",
                texture_width |-> texture_width(f),
                texture_height |-> texture_height(f),
                dims |-> <<AsU16(texture_width(f)), AsU16(texture_height(f))>>,
                glyph_dims |-> <<AsU16(f.glyph_width), AsU16(f.glyph_height)>>,
                map |-> [i \in 0..(f.glyph_count - 1) |-> AsU16(i)],
                tiles |-> [i \in 0..(f.glyph_count - 1) |-> Tile(i, f)],
                pixels |-> pixels,
                staging_len |-> len]>>
    /\ UNCHANGED font
    /\ UNCHANGED <<varsDsl, varsText, varsOther, varsFrames, varsPipes, extent, varsWin>>

AtlasInit ==
    /\ font \in Fonts
    /\ glyphAtlas = <<>>

AtlasIdle ==
    /\ font = [glyph_count |-> 1, glyph_width |-> 8, glyph_height |-> 8,
               ink |-> "first"]
    /\ glyphAtlas = <<>>

(***************************************************************************)
(* The two swapchain variants: acquire_next_image, present, recreate.      *)
(***************************************************************************)
MaxAcquires == 4

\* What the presentation engine reports of the surface: it still matches
\* the swapchain, it can still be presented to but no longer matches
\* (VK_SUBOPTIMAL_KHR), or it cannot be presented to any more
\* (VK_ERROR_OUT_OF_DATE_KHR).
SurfaceStates == {"matches", "suboptimal", "out_of_date"}

\* surface_capabilities.min_image_count and max_image_count (0: no limit)
SurfaceCaps ==
    {c \in [min_image_count : {1, 2}, max_image_count : {0, 2, 3}] :
        c.max_image_count = 0 \/ c.max_image_count >= c.min_image_count}

\* image_count of Swapchain::new
NativeImageCount(c) ==
    LET n == c.min_image_count + 1
    IN  IF c.max_image_count > 0 /\ c.max_image_count < n
        THEN c.max_image_count ELSE n

\* Swapchain::new
SwapchainNew(c, e) ==
    [raw |-> 0,
     acquire_semaphores |->
         [i \in 1..NativeImageCount(c) |-> <<"acquire", i - 1>>],
     rendering_finished_semaphores |->
         [i \in 1..NativeImageCount(c) |-> <<"rendering_finished", i - 1>>],
     next_semaphore |-> 0,
     extent |-> e]

\* vkAcquireNextImageKHR as the presentation engine answers it.
RawAcquire(surface, deviceOk) ==
    CASE ~deviceOk -> "ERROR_DEVICE_LOST"
      [] surface = "out_of_date" -> "ERROR_OUT_OF_DATE_KHR"
      [] surface = "suboptimal" -> "SUBOPTIMAL_KHR"
      [] OTHER -> "SUCCESS"

\* self.next_semaphore = (self.next_semaphore + 1) % len
NextSemaphoreStays(sw) == sw.next_semaphore
NextSemaphore(sw) == (sw.next_semaphore + 1) % Len(sw.acquire_semaphores)

\* Swapchain::acquire_next_image on the answer `raw` with image index idx:
\* what it returns and the swapchain it leaves.
acquire_next_image(sw, raw, idx) ==
    CASE raw = "SUCCESS" ->
            [result |-> "Ok",
             image |-> <<[index |-> idx,
                          acquire_semaphore |->
                              sw.acquire_semaphores[sw.next_semaphore + 1],
                          rendering_finished_semaphore |->
                              sw.rendering_finished_semaphores[
                                  sw.next_semaphore + 1]]>>,
             sw |-> [sw EXCEPT !.next_semaphore = NextSemaphore(sw)]]
      [] raw \in {"SUBOPTIMAL_KHR", "ERROR_OUT_OF_DATE_KHR"} ->
            [result |-> "RecreateSwapchain", image |-> <<>>, sw |-> sw]
      [] OTHER -> [result |-> "panic", image |-> <<>>, sw |-> sw]

\* vkQueuePresentKHR results, and Swapchain::present on them.
PresentResults == {"SUCCESS", "SUBOPTIMAL_KHR", "ERROR_OUT_OF_DATE_KHR",
                   "ERROR_DEVICE_LOST", "ERROR_SURFACE_LOST_KHR"}
native_present(raw) ==
    CASE raw \in {"SUCCESS", "SUBOPTIMAL_KHR"} -> "Ok"
      [] raw = "ERROR_OUT_OF_DATE_KHR" -> "Ok"
      [] OTHER -> "Err"

\* IDXGISwapChain::Present results, and DxgiSwapchain::present on them:
\* the wait's error is returned, a result other than S_OK fails the
\* assert_eq!.
HResults == {"S_OK", "DXGI_STATUS_OCCLUDED", "DXGI_ERROR_DEVICE_REMOVED"}
dxgi_present(waitOk, hr) ==
    CASE ~waitOk -> "Err"
      [] hr = "S_OK" -> "Ok"
      [] OTHER -> "panic"

Running ==
    /\ \A i \in DOMAIN lastAcquire : lastAcquire[i].result # "panic"
    /\ \A i \in DOMAIN lastPresent : lastPresent[i].result # "panic"

\* The window is resized or moved: the surface stops matching.
SurfaceChange(s) ==
    /\ Running
    /\ s # surfaceState
    /\ s # "matches"
    /\ surfaceState' = s
    /\ UNCHANGED <<swapchain, acquireCount, lastAcquire, lastPresent>>
    /\ UNCHANGED <<varsLife, varsSel, varsLsp, varsDsl, varsRender, varsFrames, varsPipes, extent, varsWin>>

\* Swapchain::acquire_next_image
NativeAcquire(idx, deviceOk) ==
    /\ Running
    /\ acquireCount < MaxAcquires
    /\ idx < Len(swapchain.acquire_semaphores)
    /\ LET raw == RawAcquire(surfaceState, deviceOk)
           r == acquire_next_image(swapchain, raw, idx)
       IN  /\ swapchain' = r.sw
           /\ acquireCount' =
                 IF r.result = "Ok" THEN acquireCount + 1 ELSE acquireCount
           /\ lastAcquire' =
                 <<[variant |-> "native", surface |-> surfaceState,
                    raw |-> raw, result |-> r.result, image |-> r.image]>>
    /\ UNCHANGED <<surfaceState, lastPresent>>
    /\ UNCHANGED <<varsLife, varsSel, varsLsp, varsDsl, varsRender, varsFrames, varsPipes, extent, varsWin>>

\* DxgiSwapchain::acquire_next_image: signals the acquire semaphore with
\* the next value and returns the current back buffer, whatever the state
\* of the surface.
DxgiAcquire ==
    /\ Running
    /\ ACQUIRE_VALUE <= MaxAcquires
    /\ acquireSem' = ACQUIRE_VALUE
    /\ ACQUIRE_VALUE' = ACQUIRE_VALUE + 1
    /\ lastAcquire' =
          <<[variant |-> "interop", surface |-> surfaceState,
             raw |-> "signal_semaphore", result |-> "Ok",
             image |-> <<SwapchainImage(swapIndex)>>]>>
    /\ UNCHANGED <<swapchain, surfaceState, acquireCount, lastPresent>>
    /\ UNCHANGED <<backendState, fenceSignaled, frames, frame, swapIndex, gen,
                   tokens, recorded, gpuQueue, DRAW_VALUE, finishedSem,
                   lastCalls, presentLog, dxgi, drawResult, drawError, nDraw,
                   beginsSinceDraw>>
    /\ UNCHANGED <<varsLife, varsSel, varsLsp, varsDsl, varsRender, varsPipes, extent, varsWin>>

\* Swapchain::present of the image acquired last.
NativePresent(raw) ==
    /\ Running
    /\ lastAcquire # <<>>
    /\ lastAcquire[1].variant = "native" /\ lastAcquire[1].result = "Ok"
    /\ lastPresent' =
          <<[variant |-> "native", raw |-> raw,
             result |-> native_present(raw),
             calls |-> <<[op |-> "queue_present",
                          image |-> lastAcquire[1].image[1]]>>]>>
    /\ UNCHANGED <<swapchain, surfaceState, acquireCount, lastAcquire>>
    /\ UNCHANGED <<varsLife, varsSel, varsLsp, varsDsl, varsRender, varsFrames, varsPipes, extent, varsWin>>

\* DxgiSwapchain::present of the image acquired last.
DxgiPresent(waitOk, hr) ==
    /\ Running
    /\ lastAcquire # <<>>
    /\ lastAcquire[1].variant = "interop"
    /\ ~waitOk => hr = "S_OK"
    /\ lastPresent' =
          <<[variant |-> "interop", raw |-> IF waitOk THEN hr ELSE "none",
             result |-> dxgi_present(waitOk, hr),
             calls |-> present(lastAcquire[1].image[1], waitOk)]>>
    /\ UNCHANGED <<swapchain, surfaceState, acquireCount, lastAcquire>>
    /\ UNCHANGED <<varsLife, varsSel, varsLsp, varsDsl, varsRender, varsFrames, varsPipes, extent, varsWin>>

\* Swapchain::recreate: the new swapchain takes the semaphores and the ring
\* index of the old one; create_swapchain failing leaves the old one as it
\* was.
recreate(sw, e) ==
    [raw |-> sw.raw + 1,
     acquire_semaphores |-> sw.acquire_semaphores,
     rendering_finished_semaphores |-> sw.rendering_finished_semaphores,
     next_semaphore |-> sw.next_semaphore,
     extent |-> e]

NativeRecreate(e, ok) ==
    /\ Running
    /\ swapchain.raw < MaxResizes
    /\ IF ok
       THEN /\ swapchain' = recreate(swapchain, e)
            /\ surfaceState' = "matches"
       ELSE UNCHANGED <<swapchain, surfaceState>>
    /\ UNCHANGED <<acquireCount, lastAcquire, lastPresent>>
    /\ UNCHANGED <<varsLife, varsSel, varsLsp, varsDsl, varsRender, varsFrames, varsPipes, extent, varsWin>>

SwapInit ==
    /\ \E c \in SurfaceCaps : swapchain = SwapchainNew(c, InitialExtent)
    /\ surfaceState = "matches"
    /\ acquireCount = 0
    /\ lastAcquire = <<>>
    /\ lastPresent = <<>>

SwapIdle ==
    /\ swapchain = SwapchainNew([min_image_count |-> 2, max_image_count |-> 0],
                                InitialExtent)
    /\ surfaceState = "matches"
    /\ acquireCount = 0
    /\ lastAcquire = <<>>
    /\ lastPresent = <<>>

(***************************************************************************)
(* Lifetime of the device context and of the objects that hold it          *)
(* (buffer.rs, image.rs, pipeline.rs, device.rs, backend.rs).  vkLog keeps  *)
(* the device calls in program order; obj names the object a call is made   *)
(* for (0: the device context itself or the orchestrator), n the shader     *)
(* module of a pipeline (0 otherwise).                                      *)
(***************************************************************************)
MaxObjects == 2
MaxModules == 2

VkCall(op, obj) == [op |-> op, obj |-> obj, n |-> 0]
ModuleCall(op, obj, n) == [op |-> op, obj |-> obj, n |-> n]

CreateFailures == {"none", "create", "allocate", "bind"}

\* Device::create_buffer: the calls made up to the first `?` that fails.
DeviceCreateBufferCalls(obj, failAt) ==
    CASE failAt = "create" -> <<>>
      [] failAt = "allocate" -> <<VkCall("create_buffer", obj)>>
      [] failAt = "bind" -> <<VkCall("create_buffer", obj),
                              VkCall("allocate_memory", obj)>>
      [] OTHER -> <<VkCall("create_buffer", obj),
                    VkCall("allocate_memory", obj),
                    VkCall("bind_buffer_memory", obj)>>

\* Device::create_image
DeviceCreateImageCalls(obj, failAt) ==
    CASE failAt = "create" -> <<>>
      [] failAt = "allocate" -> <<VkCall("create_image", obj)>>
      [] failAt = "bind" -> <<VkCall("create_image", obj),
                              VkCall("allocate_memory", obj)>>
      [] OTHER -> <<VkCall("create_image", obj),
                    VkCall("allocate_memory", obj),
                    VkCall("bind_image_memory", obj)>>

PipelineFailures == {"none", "module", "layout", "pipeline"}

\* create_compute_pipeline / create_graphics_pipeline: one module per shader,
\* then the layout, then the pipeline.
CreateModulesCalls(obj, modules) ==
    [n \in 1..modules |-> ModuleCall("create_shader_module", obj, n)]
CreatePipelineCalls(obj, modules, failAt) ==
    CASE failAt = "module" -> CreateModulesCalls(obj, modules - 1)
      [] failAt = "layout" -> CreateModulesCalls(obj, modules)
      [] failAt = "pipeline" ->
            Append(CreateModulesCalls(obj, modules),
                   VkCall("create_pipeline_layout", obj))
      [] OTHER ->
            CreateModulesCalls(obj, modules)
            \o <<VkCall("create_pipeline_layout", obj),
                 VkCall("create_pipeline", obj)>>

\* impl Drop for Buffer
BufferDropCalls(obj) ==
    <<VkCall("free_memory", obj), VkCall("destroy_buffer", obj)>>

ImageDropCallsMemoryFirst(obj, memory) ==
    IF memory
    THEN <<VkCall("free_memory", obj), VkCall("destroy_image", obj)>>
    ELSE <<>>
\* impl Drop for Image
ImageDropCalls(obj, memory) ==
    IF memory
    THEN <<VkCall("destroy_image", obj), VkCall("free_memory", obj)>>
    ELSE <<>>

PipelineDropCallsPipelineFirst(obj, modules) ==
    <<VkCall("destroy_pipeline", obj), VkCall("destroy_pipeline_layout", obj)>>
    \o [n \in 1..modules |-> ModuleCall("destroy_shader_module", obj, n)]
\* impl Drop for PipelineCommon
PipelineDropCalls(obj, modules) ==
    [n \in 1..modules |-> ModuleCall("destroy_shader_module", obj, n)]
    \o <<VkCall("destroy_pipeline_layout", obj), VkCall("destroy_pipeline", obj)>>

\* The other holders of an Arc<Device>, and the call each one's Drop makes.
HolderKinds ==
    {"image_view", "framebuffer", "render_pass", "descriptor_pool",
     "swapchain", "command_buffer", "profiler"}
HolderDropCalls(obj, kind) ==
    CASE kind = "image_view" -> <<VkCall("destroy_image_view", obj)>>
      [] kind = "framebuffer" -> <<VkCall("destroy_framebuffer", obj)>>
      [] kind = "render_pass" -> <<VkCall("destroy_render_pass", obj)>>
      [] kind = "descriptor_pool" -> <<VkCall("destroy_descriptor_pool", obj)>>
      [] kind = "swapchain" -> <<VkCall("destroy_semaphore", obj),
                                 VkCall("destroy_semaphore", obj)>>
      [] kind = "profiler" -> <<VkCall("destroy_query_pool", obj)>>
                              \o BufferDropCalls(obj)
      [] OTHER -> <<>>

DropCalls(obj, o) ==
    CASE o.kind = "buffer" -> BufferDropCalls(obj)
      [] o.kind = "image" -> ImageDropCalls(obj, o.memory)
      [] o.kind = "pipeline" -> PipelineDropCalls(obj, o.modules)
      [] OTHER -> HolderDropCalls(obj, o.kind)

ArcDropEager(count) ==
    <<VkCall("destroy_command_pool", 0), VkCall("destroy_device", 0)>>
\* Arc<Device>: releasing the last strong reference runs impl Drop for Device.
ArcDrop(count) ==
    IF count = 1
    THEN <<VkCall("destroy_command_pool", 0), VkCall("destroy_device", 0)>>
    ELSE <<>>

\* state: "live" | "dropped" | "failed" (the creation returned Err: no struct
\* exists, and no Drop runs for the handles made before the error).
Object(kind, memory, modules) ==
    [kind |-> kind, memory |-> memory, modules |-> modules, state |-> "live"]

\* A failed creation returns Err before the struct, and its Arc clone, exist.
Created(calls, ok, o) ==
    /\ vkLog' = vkLog \o calls
    /\ IF ok
       THEN /\ objects' = Append(objects, o)
            /\ deviceArc' = deviceArc + 1
       ELSE /\ objects' = Append(objects, [o EXCEPT !.state = "failed"])
            /\ UNCHANGED deviceArc
    /\ UNCHANGED orchestrator
    /\ UNCHANGED <<varsSwap, varsSel, varsLsp, varsDsl, varsRender, varsFrames,
                   varsPipes, extent, varsWin>>

CreateBuffer(failAt) ==
    /\ deviceArc >= 1
    /\ Len(objects) < MaxObjects
    /\ Created(DeviceCreateBufferCalls(Len(objects) + 1, failAt),
               failAt = "none", Object("buffer", TRUE, 0))

CreateImage(failAt) ==
    /\ deviceArc >= 1
    /\ Len(objects) < MaxObjects
    /\ Created(DeviceCreateImageCalls(Len(objects) + 1, failAt),
               failAt = "none", Object("image", TRUE, 0))

\* Swapchain::framebuffers: an Image around a swapchain image, memory: None
WrapImage ==
    /\ deviceArc >= 1
    /\ Len(objects) < MaxObjects
    /\ Created(<<>>, TRUE, Object("image", FALSE, 0))

CreatePipeline(modules, failAt) ==
    /\ deviceArc >= 1
    /\ Len(objects) < MaxObjects
    /\ Created(CreatePipelineCalls(Len(objects) + 1, modules, failAt),
               failAt = "none", Object("pipeline", FALSE, modules))

CreateHolder(kind) ==
    /\ deviceArc >= 1
    /\ Len(objects) < MaxObjects
    /\ Created(<<>>, TRUE, Object(kind, FALSE, 0))

DropObject(i) ==
    /\ i \in DOMAIN objects
    /\ objects[i].state = "live"
    /\ objects' = [objects EXCEPT ![i].state = "dropped"]
    /\ vkLog' = vkLog \o DropCalls(i, objects[i]) \o ArcDrop(deviceArc)
    /\ deviceArc' = deviceArc - 1
    /\ UNCHANGED orchestrator
    /\ UNCHANGED <<varsSwap, varsSel, varsLsp, varsDsl, varsRender, varsFrames,
                   varsPipes, extent, varsWin>>

\* impl Drop for RenderBackend, then the drop of its `device` field.  The
\* objects the orchestrator owns are dropped by DropObject steps.
DropBackend ==
    /\ orchestrator = "live"
    /\ orchestrator' = "dropped"
    /\ vkLog' = Append(vkLog, VkCall("device_wait_idle", 0))
                \o ArcDrop(deviceArc)
    /\ deviceArc' = deviceArc - 1
    /\ UNCHANGED objects
    /\ UNCHANGED <<varsSwap, varsSel, varsLsp, varsDsl, varsRender, varsFrames,
                   varsPipes, extent, varsWin>>

LifeInit ==
    /\ objects = <<>>
    /\ deviceArc = 1
    /\ orchestrator = "live"
    /\ vkLog = <<>>

LifeIdle == LifeInit

(***************************************************************************)
(* Physical-device selection and Device::create (physical_device.rs,       *)
(* backend.rs, device.rs).  A physical device is the list of its queue      *)
(* families; a family either has the GRAPHICS flag or not, and either can   *)
(* present to the surface or not.                                           *)
(***************************************************************************)
MaxDevices == 2
MaxFamilies == 2

QueueFamilies == [graphics : BOOLEAN, present : BOOLEAN]
FamilyLists == UNION {[1..n -> QueueFamilies] : n \in 0..MaxFamilies}
DeviceLists == UNION {[1..n -> FamilyLists] : n \in 0..MaxDevices}

\* PresentationSupport::next, the `any` over the queue families
supports_presentation(qfs) ==
    \E q \in DOMAIN qfs : qfs[q].graphics /\ qfs[q].present

\* PresentationSupport::next on what is left of the enumeration: the
\* position of the device it yields, or <<>> for None.
PresentationSupportNext(devs, from) ==
    IF from > Len(devs) THEN <<>>
    ELSE IF supports_presentation(devs[from]) THEN <<from>>
    ELSE <<>>

\* RenderBackend::new: enumerate, with_presentation_support, next, context
SelectPhysicalDevice(devs, enumerateOk) ==
    IF ~enumerateOk THEN [tag |-> "Err", msg |-> "enumerate_physical_devices"]
    ELSE LET found == PresentationSupportNext(devs, 1) IN
         IF found = <<>>
         THEN [tag |-> "Err", msg |-> "no suitable device found"]
         ELSE [tag |-> "Ok", pdevice |-> found[1]]

\* Device::create, queue_family: the first family with the GRAPHICS flag
GraphicsFamilies(qfs) == {q \in DOMAIN qfs : qfs[q].graphics}
FirstGraphicsFamily(qfs) ==
    IF GraphicsFamilies(qfs) = {} THEN <<>>
    ELSE <<CHOOSE q \in GraphicsFamilies(qfs) :
             \A r \in GraphicsFamilies(qfs) : q <= r>>

\* Device::create: queue_infos has one entry; families are numbered from 0.
device_create(qfs, extensionsOk, createOk) ==
    IF ~extensionsOk
    THEN [tag |-> "Err", msg |-> "device extension not supported"]
    ELSE IF FirstGraphicsFamily(qfs) = <<>>
    THEN [tag |-> "Err", msg |-> "no suitable render queue found"]
    ELSE IF ~createOk
    THEN [tag |-> "Err", msg |-> "create_device"]
    ELSE [tag |-> "Ok",
          queue_infos |-> <<FirstGraphicsFamily(qfs)[1] - 1>>,
          queue |-> [family |-> FirstGraphicsFamily(qfs)[1] - 1]]

SelectDevice(enumerateOk) ==
    /\ selection = <<>>
    /\ selection' = <<SelectPhysicalDevice(pdevices, enumerateOk)>>
    /\ UNCHANGED <<pdevices, logicalDevice>>
    /\ UNCHANGED <<varsSwap, varsLife, varsLsp, varsDsl, varsRender, varsFrames,
                   varsPipes, extent, varsWin>>

DeviceCreate(extensionsOk, createOk) ==
    /\ selection # <<>>
    /\ logicalDevice = <<>>
    /\ \A s \in DOMAIN selection : selection[s].tag = "Ok"
    /\ logicalDevice' =
          <<device_create(pdevices[selection[1].pdevice], extensionsOk,
                          createOk)>>
    /\ UNCHANGED <<pdevices, selection>>
    /\ UNCHANGED <<varsSwap, varsLife, varsLsp, varsDsl, varsRender, varsFrames,
                   varsPipes, extent, varsWin>>

SelInit ==
    /\ pdevices \in DeviceLists
    /\ selection = <<>>
    /\ logicalDevice = <<>>

SelIdle ==
    /\ pdevices = <<>>
    /\ selection = <<>>
    /\ logicalDevice = <<>>

(***************************************************************************)
(* The language-server transport (lsp/transport.rs, lsp/types.rs).         *)
(* Text is a sequence of byte groups: a group is one byte, or a run of     *)
(* ASCII bytes that always travels together (a keyword, a member key).     *)
(* The string "é" is the two bytes 0xC3 0xA9.                              *)
(***************************************************************************)
MaxFrames == 2

\* Number of bytes of a group.
Width(tok) ==
    CASE tok = "Content-Length" -> 14
      [] tok = "Content-Type" -> 12
      [] tok = ": " -> 2
      [] tok = "\"jsonrpc\":\"2.0\"" -> 15
      [] tok = "\"id\":" -> 5
      [] tok = "\"method\":" -> 9
      [] tok = "\"params\":" -> 9
      [] tok = "\"result\":" -> 9
      [] tok = "\"error\":" -> 8
      [] tok = "{\"code\":1,\"message\":\"m\"}" -> 24
      [] tok = "\"m\"" -> 3
      [] tok = "null" -> 4
      [] OTHER -> 1

\* Number of characters of a group: the second byte of "é" adds none.
CharWidth(tok) == IF tok = "0xA9" THEN 0 ELSE Width(tok)

RECURSIVE TextLenChars(_)
TextLenChars(json) ==
    IF json = <<>> THEN 0
    ELSE CharWidth(Head(json)) + TextLenChars(Tail(json))

\* String::len: the length in bytes.
RECURSIVE TextLen(_)
TextLen(json) ==
    IF json = <<>> THEN 0 ELSE Width(Head(json)) + TextLen(Tail(json))

\* format!("{}", n) of an unsigned integer, and str::parse::<usize>.
DigitChars == <<"0", "1", "2", "3", "4", "5", "6", "7", "8", "9">>
IsDigit(tok) == \E d \in DOMAIN DigitChars : DigitChars[d] = tok
DigitValue(tok) == (CHOOSE d \in DOMAIN DigitChars : DigitChars[d] = tok) - 1
RECURSIVE Decimal(_)
Decimal(n) ==
    IF n < 10 THEN <<DigitChars[n + 1]>>
    ELSE Decimal(n \div 10) \o <<DigitChars[(n % 10) + 1]>>
RECURSIVE ParseDigits(_, _)
ParseDigits(json, acc) ==
    IF json = <<>> THEN acc
    ELSE ParseDigits(Tail(json), 10 * acc + DigitValue(Head(json)))
\* <<n>> when the json is a decimal number, <<>> when it is not
ParseUsize(json) ==
    IF json # <<>> /\ \A i \in DOMAIN json : IsDigit(json[i])
    THEN <<ParseDigits(json, 0)>>
    ELSE <<>>

\* serde_json::Value, as far as the messages here use it.
Null == [t |-> "null", n |-> 0, s |-> ""]
Number(n) == [t |-> "number", n |-> n, s |-> ""]
String(s) == [t |-> "string", n |-> 0, s |-> s]
\* ResponseError { code: 1, message: "m", data: None }
ErrorObject == [t |-> "error", n |-> 1, s |-> "m"]
Values == {Null, Number(1), String("é")}

\* Option::None
Nothing == <<>>

\* types.rs: the three kinds of Message.
Request(id, method, params) ==
    [kind |-> "Request", id |-> id, method |-> method, params |-> params]
Notification(method, params) ==
    [kind |-> "Notification", method |-> method, params |-> params]
Response(id, result, error) ==
    [kind |-> "Response", id |-> id, result |-> result, error |-> error]
Messages ==
    {Request(0, "m", Null), Request(12, "m", String("é")),
     Request(0, "m", Number(1)),
     Notification("m", Null), Notification("m", String("é")),
     Response(0, Nothing, <<ErrorObject>>)}
      \cup {Response(0, r, Nothing) :
                r \in {Nothing} \cup {Some(v) : v \in Values}}

\* serde_json::to_string of a Value
ValueText(v) ==
    CASE v.t = "null" -> <<"null">>
      [] v.t = "number" -> Decimal(v.n)
      [] v.t = "string" ->
            IF v.s = "é" THEN <<"\"", "0xC3", "0xA9", "\"">>
            ELSE <<"\"" \o v.s \o "\"">>
      [] v.t = "error" -> <<"{\"code\":1,\"message\":\"m\"}">>

Member(key, json) == <<",", key>> \o json
\* skip_serializing_if = "serde_json::Value::is_null"
ParamsMember(params) ==
    IF params = Null THEN <<>> ELSE Member("\"params\":", ValueText(params))
\* skip_serializing_if = "Option::is_none"
OptionMember(key, opt) ==
    IF opt = Nothing THEN <<>> ELSE Member(key, ValueText(opt[1]))

\* The members of a Message, in the order of the struct's fields.
MessageMembers(message) ==
    CASE message.kind = "Request" ->
            Member("\"id\":", Decimal(message.id))
              \o Member("\"method\":", ValueText(String(message.method)))
              \o ParamsMember(message.params)
      [] message.kind = "Notification" ->
            Member("\"method\":", ValueText(String(message.method)))
              \o ParamsMember(message.params)
      [] message.kind = "Response" ->
            Member("\"id\":", Decimal(message.id))
              \o OptionMember("\"result\":", message.result)
              \o OptionMember("\"error\":", message.error)

\* serde_json::to_string(&JsonRpc { jsonrpc: "2.0", message })
to_string(message) ==
    <<"{", "\"jsonrpc\":\"2.0\"">> \o MessageMembers(message) \o <<"}">>

CRLF == <<"\r", "\n">>
HeaderLine(name, value) == <<name, ": ">> \o value \o CRLF

\* What Transport::send writes to the child's stdin.
SendBytesCountingChars(message) ==
    LET json == to_string(message)
    IN  HeaderLine("Content-Length", Decimal(TextLenChars(json)))
          \o CRLF \o json
SendBytes(message) ==
    LET json == to_string(message)
    IN  HeaderLine("Content-Length", Decimal(TextLen(json))) \o CRLF \o json

\* BufRead::read_line: the bytes up to and including the first "\n", or all
\* that is left when there is none.
LineEnd(s) ==
    IF \E i \in DOMAIN s : s[i] = "\n"
    THEN CHOOSE i \in DOMAIN s :
            s[i] = "\n" /\ \A j \in 1..(i - 1) : s[j] # "\n"
    ELSE Len(s)
\* str::trim
Whitespace == {"\r", "\n", " "}
RECURSIVE TrimStart(_)
TrimStart(s) ==
    IF s # <<>> /\ Head(s) \in Whitespace THEN TrimStart(Tail(s)) ELSE s
RECURSIVE TrimEnd(_)
TrimEnd(s) ==
    IF s # <<>> /\ s[Len(s)] \in Whitespace
    THEN TrimEnd(SubSeq(s, 1, Len(s) - 1))
    ELSE s
Trim(s) == TrimEnd(TrimStart(s))
EndsWithCRLF(s) == Len(s) >= 2 /\ SubSeq(s, Len(s) - 1, Len(s)) = CRLF
\* str::split_once(": "): <<before, after>> of the first ": ", or nothing
SplitOnce(s) ==
    IF \E i \in DOMAIN s : s[i] = ": "
    THEN LET i == CHOOSE i \in DOMAIN s :
                     s[i] = ": " /\ \A j \in 1..(i - 1) : s[j] # ": "
         IN  <<SubSeq(s, 1, i - 1), SubSeq(s, i + 1, Len(s))>>
    ELSE Nothing

ReadErr(msg, rest) == [tag |-> "Err", msg |-> msg, rest |-> rest]
ReadPanic(rest) == [tag |-> "Panic", msg |-> "assertion failed", rest |-> rest]

\* The header loop of try_read; size is the Content-Length seen so far.
RECURSIVE ReadHeaders(_, _)
ReadHeaders(s, size) ==
    IF s = <<>> THEN ReadErr("stream closed", s)
    ELSE LET n == LineEnd(s)
             buf == SubSeq(s, 1, n)
             rest == SubSeq(s, n + 1, Len(s))
             header == Trim(buf)
             parts == SplitOnce(header)
         IN  IF ~EndsWithCRLF(buf) THEN ReadPanic(rest)
             ELSE IF header = <<>>
             THEN [tag |-> "Ok", size |-> size, rest |-> rest]
             ELSE IF parts # Nothing /\ parts[1] = <<"Content-Length">>
             THEN IF ParseUsize(parts[2]) = Nothing
                  THEN ReadErr("invalid content length", rest)
                  ELSE ReadHeaders(rest, ParseUsize(parts[2]))
             ELSE ReadHeaders(rest, size)

\* Read::read_exact into a buffer of `size` bytes: the longest run of whole
\* groups that fits, then "cut" when the buffer ends inside a group.
RECURSIVE Take(_, _)
Take(s, size) ==
    IF size = 0 \/ s = <<>> THEN <<>>
    ELSE IF Width(Head(s)) <= size
    THEN <<Head(s)>> \o Take(Tail(s), size - Width(Head(s)))
    ELSE <<"cut">>
RECURSIVE Drop_(_, _)
Drop_(s, size) ==
    IF size = 0 \/ s = <<>> THEN s
    ELSE IF Width(Head(s)) <= size
    THEN Drop_(Tail(s), size - Width(Head(s)))
    ELSE <<"cut">> \o Tail(s)

\* String::from_utf8: a lead byte needs its continuation byte.
Utf8Valid(bytes) ==
    /\ \A i \in DOMAIN bytes :
          bytes[i] = "0xC3" => (i < Len(bytes) /\ bytes[i + 1] = "0xA9")
    /\ \A i \in DOMAIN bytes :
          bytes[i] = "0xA9" => (i > 1 /\ bytes[i - 1] = "0xC3")

\* serde_json's reader, on the texts above: one value at the front of s.
DigitRun(s) ==
    IF \E i \in DOMAIN s : ~IsDigit(s[i])
    THEN (CHOOSE i \in DOMAIN s :
             ~IsDigit(s[i]) /\ \A j \in 1..(i - 1) : IsDigit(s[j])) - 1
    ELSE Len(s)
Parsed(value, rest) == <<[value |-> value, rest |-> rest]>>
ParseValue(s) ==
    IF s = <<>> THEN Nothing
    ELSE IF Head(s) = "null" THEN Parsed(Null, Tail(s))
    ELSE IF IsDigit(Head(s))
    THEN Parsed(Number(ParseDigits(SubSeq(s, 1, DigitRun(s)), 0)),
                SubSeq(s, DigitRun(s) + 1, Len(s)))
    ELSE IF Head(s) = "\"m\"" THEN Parsed(String("m"), Tail(s))
    ELSE IF Len(s) >= 4 /\ SubSeq(s, 1, 4) = <<"\"", "0xC3", "0xA9", "\"">>
    THEN Parsed(String("é"), SubSeq(s, 5, Len(s)))
    ELSE IF Head(s) = "{\"code\":1,\"message\":\"m\"}"
    THEN Parsed(ErrorObject, Tail(s))
    ELSE Nothing

MemberKeys ==
    {"\"id\":", "\"method\":", "\"params\":", "\"result\":", "\"error\":"}
NoFields ==
    [id |-> Nothing, method |-> Nothing, params |-> Nothing, result |-> Nothing,
     error |-> Nothing]
SetField(fields, key, value) ==
    CASE key = "\"id\":" -> [fields EXCEPT !.id = <<value>>]
      [] key = "\"method\":" -> [fields EXCEPT !.method = <<value>>]
      [] key = "\"params\":" -> [fields EXCEPT !.params = <<value>>]
      [] key = "\"result\":" -> [fields EXCEPT !.result = <<value>>]
      [] key = "\"error\":" -> [fields EXCEPT !.error = <<value>>]

\* The members of an object, s being the json after "{" or after ",":
\* <<fields>>, or nothing when the json is not a JSON object.
RECURSIVE ParseMembers(_, _)
ParseMembers(s, fields) ==
    LET after(rest, fs) ==
            IF rest = <<"}">> THEN <<fs>>
            ELSE IF rest # <<>> /\ Head(rest) = ","
            THEN ParseMembers(Tail(rest), fs)
            ELSE Nothing
    IN  IF s = <<>> THEN Nothing
        ELSE IF Head(s) = "\"jsonrpc\":\"2.0\"" THEN after(Tail(s), fields)
        ELSE IF Head(s) \in MemberKeys
        THEN LET v == ParseValue(Tail(s))
             IN  IF v = Nothing THEN Nothing
                 ELSE after(v[1].rest, SetField(fields, Head(s), v[1].value))
        ELSE Nothing

\* Deserialize for Option<T>: an absent member and null both give None.
OptionOf(member) ==
    IF member = Nothing \/ member[1] = Null THEN Nothing ELSE member
\* #[serde(default)] on params
ParamsOf(member) == IF member = Nothing THEN Null ELSE member[1]
IsA(member, t) == member # Nothing /\ member[1].t = t

\* #[serde(untagged)]: the first variant, in declaration order, that the
\* members fit; members a variant does not name are ignored.
Untagged(fields) ==
    IF IsA(fields.id, "number") /\ IsA(fields.method, "string")
    THEN <<Request(fields.id[1].n, fields.method[1].s,
                   ParamsOf(fields.params))>>
    ELSE IF IsA(fields.method, "string")
    THEN <<Notification(fields.method[1].s, ParamsOf(fields.params))>>
    ELSE IF IsA(fields.id, "number")
              /\ OptionOf(fields.error) \in {Nothing, <<ErrorObject>>}
    THEN <<Response(fields.id[1].n, OptionOf(fields.result),
                    OptionOf(fields.error))>>
    ELSE Nothing

\* serde_json::from_str::<Message>
from_str(json) ==
    IF json = <<>> \/ Head(json) # "{" THEN Nothing
    ELSE LET fields == ParseMembers(Tail(json), NoFields)
         IN  IF fields = Nothing THEN Nothing ELSE Untagged(fields[1])

\* try_read(reader): the message or the error, and what is left unread.
try_read(s) ==
    LET h == ReadHeaders(s, Nothing)
    IN  IF h.tag # "Ok" THEN h
        ELSE IF h.size = Nothing THEN ReadErr("missing context length", h.rest)
        ELSE IF TextLen(h.rest) < h.size[1]
        THEN ReadErr("failed to fill whole buffer", <<>>)
        ELSE LET buf == Take(h.rest, h.size[1])
                 rest == Drop_(h.rest, h.size[1])
             IN  IF ~Utf8Valid(buf)
                 THEN ReadErr("server sent invalid utf8", rest)
                 ELSE IF from_str(buf) = Nothing
                 THEN ReadErr("invalid json", rest)
                 ELSE [tag |-> "Ok", msg |-> from_str(buf)[1], rest |-> rest]

\* A frame as the process at the other end of the pipe may write it: with a
\* Content-Type header before or after Content-Length, or with no
\* Content-Length at all.
ContentType ==
    HeaderLine("Content-Type", <<"application/vscode-jsonrpc; charset=utf-8">>)
HeaderPlacements == {"none", "before", "after"}
PeerBytes(message, extra, withLength) ==
    LET json == to_string(message)
        length == IF withLength
                  THEN HeaderLine("Content-Length", Decimal(TextLen(json)))
                  ELSE <<>>
    IN  (IF extra = "before" THEN ContentType ELSE <<>>)
          \o length
          \o (IF extra = "after" THEN ContentType ELSE <<>>)
          \o CRLF \o json
PeerMessages == {Notification("m", String("é")), Response(12, Nothing, <<ErrorObject>>)}

Written(by, message, bytes, withLength) ==
    [by |-> by, message |-> message, bytes |-> bytes, length |-> withLength]

\* The loop of the listener thread ended: try_read returned an error.
ListenerStopped == \E i \in DOMAIN received : received[i].tag # "Ok"

\* Transport::send(message)
TransportSend(message) ==
    /\ Len(outbox) < MaxFrames
    /\ stream' = stream \o SendBytes(message)
    /\ outbox' = Append(outbox,
                         Written("send", message, SendBytes(message), TRUE))
    /\ UNCHANGED received
    /\ UNCHANGED <<varsClient, varsSwap, varsLife, varsSel, varsDsl, varsRender,
                   varsFrames, varsPipes, extent, varsWin>>

\* The other end writes a frame.
PeerWrite(message, extra, withLength) ==
    /\ Len(outbox) < MaxFrames
    /\ LET bytes == PeerBytes(message, extra, withLength)
       IN  /\ stream' = stream \o bytes
           /\ outbox' = Append(outbox,
                                Written("peer", message, bytes, withLength))
    /\ UNCHANGED received
    /\ UNCHANGED <<varsClient, varsSwap, varsLife, varsSel, varsDsl, varsRender,
                   varsFrames, varsPipes, extent, varsWin>>

\* One turn of the listener loop of Transport::start: try_read, and the
\* loop ends at the first error.  read_line blocks while the pipe is empty.
ListenerRead ==
    /\ ~ListenerStopped
    /\ stream # <<>>
    /\ LET r == try_read(stream)
       IN  /\ received' = Append(received, [tag |-> r.tag, msg |-> r.msg])
           /\ stream' = r.rest
    /\ UNCHANGED outbox
    /\ UNCHANGED <<varsClient, varsSwap, varsLife, varsSel, varsDsl, varsRender,
                   varsFrames, varsPipes, extent, varsWin>>

TransportInit ==
    /\ stream = <<>>
    /\ outbox = <<>>
    /\ received = <<>>
(***************************************************************************)
(* The protocol client (lsp.rs): the Context owned by the client thread.   *)
(***************************************************************************)
MaxRequests == 2
MaxResponses == 2

\* Context::next_request_id: the id handed out and the counter after it.
next_request_id_reused(counter) ==
    [id |-> counter, request_counter |-> counter]
next_request_id(counter) ==
    [id |-> counter, request_counter |-> counter + 1]

\* slice::binary_search_by_key(&key, |(id, _)| *id): <<index>> of an entry
\* with that id, found by halving [left, right), or nothing.
RECURSIVE binary_search(_, _, _, _)
binary_search(list, key, left, right) ==
    IF left >= right THEN Nothing
    ELSE LET mid == left + (right - left) \div 2
         IN  IF list[mid + 1].id < key
             THEN binary_search(list, key, mid + 1, right)
             ELSE IF list[mid + 1].id > key
             THEN binary_search(list, key, left, mid)
             ELSE Some(mid + 1)

\* What the callback of a request is called with.
CallbackResult(resp) ==
    IF resp.error # Nothing
    THEN [tag |-> "Err", value |-> resp.error[1]]
    ELSE [tag |-> "Ok",
          value |-> IF resp.result = Nothing THEN Null ELSE resp.result[1]]

ServerResponses ==
    {Response(id, r, e) : id \in 0..MaxRequests,
                          r \in {Nothing, Some(Number(1))},
                          e \in {Nothing, Some(ErrorObject)}}
ServerMessages ==
    ServerResponses \cup {Notification("m", Null), Request(0, "m", Null)}

\* process_client_message(ClientMessage::Request { .. }); the callback is
\* named by the ordinal of the request.  When transport.send fails the
\* error reaches the unwrap of the thread's loop.
ClientRequest(sendOk) ==
    /\ clientState = "running"
    /\ requested < MaxRequests
    /\ LET next == next_request_id(request_counter)
       IN  /\ request_counter' = next.request_counter
           /\ pending_requests' =
                 Append(pending_requests,
                        [id |-> next.id, callback |-> requested + 1])
    /\ requested' = requested + 1
    /\ clientState' = IF sendOk THEN "running" ELSE "panicked"
    /\ clientError' = IF sendOk THEN "" ELSE "send failed"
    /\ UNCHANGED <<handled, forwarded>>
    /\ UNCHANGED <<varsTransport, varsSwap, varsLife, varsSel, varsDsl,
                   varsRender, varsFrames, varsPipes, extent, varsWin>>

\* process_server_message(client_tx, msg)
ProcessServerMessage(msg) ==
    /\ clientState = "running"
    /\ Len(handled) + forwarded < MaxResponses
    /\ IF msg.kind # "Response"
       THEN /\ forwarded' = forwarded + 1
            /\ UNCHANGED <<pending_requests, handled, clientState,
                           clientError>>
       ELSE LET found == binary_search(pending_requests, msg.id, 0,
                                       Len(pending_requests))
            IN  /\ forwarded' = forwarded
                /\ IF found = Nothing
                   THEN /\ clientError' = "no matching request id for response"
                        /\ clientState' = "panicked"
                        /\ handled' =
                              Append(handled, [response |-> msg,
                                               called |-> Nothing])
                        /\ UNCHANGED pending_requests
                   ELSE /\ pending_requests' =
                              RemoveAt(pending_requests, found[1])
                        /\ handled' =
                              Append(handled,
                                     [response |-> msg,
                                      called |-> Some(
                                         [callback |->
                                             pending_requests[found[1]].callback,
                                          result |-> CallbackResult(msg)])])
                        /\ UNCHANGED <<clientState, clientError>>
    /\ UNCHANGED <<request_counter, requested>>
    /\ UNCHANGED <<varsTransport, varsSwap, varsLife, varsSel, varsDsl,
                   varsRender, varsFrames, varsPipes, extent, varsWin>>

ClientInit ==
    /\ request_counter = 0
    /\ pending_requests = <<>>
    /\ requested = 0
    /\ handled = <<>>
    /\ forwarded = 0
    /\ clientState = "running"
    /\ clientError = ""

LspInit == TransportInit /\ ClientInit
LspIdle == LspInit

(***************************************************************************)
(* Initial states and specifications.                                      *)
(***************************************************************************)
OtherIdle == SwapIdle /\ LifeIdle /\ SelIdle /\ LspIdle

\* RenderBackend::new
FramesInit ==
    /\ backendState = "live"
    /\ fenceSignaled = [f \in Range(in_flight_fences) |-> TRUE]
    /\ frames = NewFrames
    /\ frame = 0
    /\ extent = InitialExtent
    /\ swapIndex = 0
    /\ gen = 0
    /\ tokens = <<>>
    /\ recorded = [cb \in 0..(image_count - 1) |-> {}]
    /\ gpuQueue = <<>>
    /\ ACQUIRE_VALUE = 1
    /\ DRAW_VALUE = 1
    /\ acquireSem = 0
    /\ finishedSem = 0
    /\ lastCalls = <<>>
    /\ presentLog = <<>>
    /\ dxgi = NewDxgi
    /\ drawResult = "none"
    /\ drawError = "none"
    /\ nDraw = 0
    /\ beginsSinceDraw = 0

\* create_render_pass(&device, vk::Format::B8G8R8A8_UNORM)
NewRenderPass == [format |-> "B8G8R8A8_UNORM"]

\* RenderBackend::new: nothing registered, no pipeline.
PipesInit ==
    /\ shaders = <<>>
    /\ descriptor_set_layouts = <<>>
    /\ layoutSerial = 0
    /\ layoutLog = <<>>
    /\ render_pass = NewRenderPass
    /\ compute_pipelines = <<>>
    /\ graphics_pipelines = <<>>

\* Render::new: three shaders registered, the layouts allocated, one compute
\* and one graphics pipeline created, in this order.
RenderNewLayouts ==
    LayoutHandles(create_descriptor_set_layouts(
                      <<COMPUTE_SHADER, VERTEX_SHADER, FRAGMENT_SHADER>>), 1)

PipesAfterRenderNew ==
    /\ shaders = <<COMPUTE_SHADER, VERTEX_SHADER, FRAGMENT_SHADER>>
    /\ descriptor_set_layouts = RenderNewLayouts
    /\ layoutSerial = 1
    /\ layoutLog = CreateLayoutCalls(RenderNewLayouts)
    /\ render_pass = NewRenderPass
    /\ compute_pipelines =
          <<create_compute_pipeline(COMPUTE_SHADER, RenderNewLayouts, 0,
                                    <<"cp", 0>>)>>
    /\ graphics_pipelines =
          <<create_graphics_pipeline(VERTEX_SHADER, FRAGMENT_SHADER,
                                     RenderNewLayouts, InitialExtent, 0,
                                     <<"gp", 0, 0>>)>>

\* gui::run up to its loop: the window exists, the renderer has drawn once.
WinInit ==
    /\ winPc = "pump"
    /\ FLAG = FALSE
    /\ winQueue = <<>>
    /\ ack = NoAck
    /\ clientPc = "select"
    /\ clientEvent = [type |-> "None"]
    /\ drawnExtent = InitialExtent
    /\ toServer = <<>>
    /\ mainPc = "loop"

\* The descriptor-set-layout merge on its inputs.
InitLayouts == DslInit /\ TextIdle /\ AtlasIdle /\ OtherIdle
    /\ FramesInit /\ PipesInit /\ WinInit
NextLayouts == MergeBoth
SpecLayouts == InitLayouts /\ [][NextLayouts]_vars

\* The frame orchestrator under every order of calls its interface allows,
\* with the GPU running beside it.
InitFrames == DslIdle /\ TextIdle /\ AtlasIdle /\ OtherIdle
    /\ FramesInit /\ PipesAfterRenderNew /\ WinInit
NextFrames ==
    \/ BeginFrame
    \/ \E k \in 1..MaxTokens : Record(k)
    \/ \E k \in 1..MaxTokens, failAt \in FailPoints : DrawFrame(k, failAt)
    \/ GpuComplete
    \* a failing recreate fails in create_images, at the second image
    \/ \E e \in Extents, ok \in BOOLEAN :
          RecreateSwapchain(e[1], e[2], ok, IF ok THEN 0 ELSE 2)
    \/ Drop
SpecFrames == InitFrames /\ [][NextFrames]_vars

\* Registration, layout allocation, pipeline creation and resizing.
InitPipelines == DslIdle /\ TextIdle /\ AtlasIdle /\ OtherIdle
    /\ FramesInit /\ PipesInit /\ WinInit
NextPipelines ==
    \/ \E sh \in RegisterPool : RegisterShader(sh)
    \/ AllocateOnce
    \/ \E vs, fs \in 0..(MaxRegistered - 1), pc \in PushConstantSizes :
          CreateGraphicsPipeline(vs, fs, pc)
    \/ \E cs \in 0..(MaxRegistered - 1) : CreateComputePipeline(cs, 0)
    \* a failing recreate fails after create_images, rebuilding a pipeline
    \/ \E e \in Extents, ok \in BOOLEAN : RecreateSwapchain(e[1], e[2], ok, 0)
SpecPipelines == InitPipelines /\ [][NextPipelines]_vars

\* The three threads.
InitResize == DslIdle /\ TextIdle /\ AtlasIdle /\ OtherIdle
    /\ FramesInit /\ PipesAfterRenderNew /\ WinInit
NextResize ==
    \/ WmSizeFirst
    \/ \E e \in Extents : WmSizeSend(e[1], e[2])
    \/ WmSizeReturn
    \/ WmSizeRecvErr
    \/ \E k \in Keys : WmSendEvent(KeyboardEvent(k))
    \/ WmSendEvent(RedrawRequestedEvent)
    \/ WmDestroy
    \/ ClientRecv
    \/ \E ok \in BOOLEAN : ClientResize(ok)
    \/ \E ok \in BOOLEAN : ClientDraw(ok)
    \/ ClientAck
    \/ MainRecv
SpecResize == InitResize /\ [][NextResize]_vars

\* The frame composer on every text and atlas.
InitText ==
    DslIdle /\ TextInit /\ AtlasIdle /\ OtherIdle /\ FramesInit /\ PipesAfterRenderNew /\ WinInit
NextText == \E vk \in VkMapResults : RenderDrawFrame(vk)
SpecText == InitText /\ [][NextText]_vars

\* GlyphAtlas::new on every font.
InitAtlas ==
    DslIdle /\ TextIdle /\ AtlasInit /\ OtherIdle /\ FramesInit /\ PipesInit /\ WinInit
NextAtlas == GlyphAtlasNew
SpecAtlas == InitAtlas /\ [][NextAtlas]_vars

\* The two swapchain variants under every answer of the presentation engine.
InitSwapchain ==
    DslIdle /\ TextIdle /\ AtlasIdle /\ SwapInit /\ LifeIdle /\ SelIdle /\ LspIdle
    /\ FramesInit /\ PipesInit /\ WinInit
NextSwapchain ==
    \/ \E s \in SurfaceStates : SurfaceChange(s)
    \/ \E idx \in 0..2, deviceOk \in BOOLEAN : NativeAcquire(idx, deviceOk)
    \/ DxgiAcquire
    \/ \E raw \in PresentResults : NativePresent(raw)
    \/ \E waitOk \in BOOLEAN, hr \in HResults : DxgiPresent(waitOk, hr)
    \/ \E e \in Extents, ok \in BOOLEAN : NativeRecreate(e, ok)
SpecSwapchain == InitSwapchain /\ [][NextSwapchain]_vars

\* Objects created and dropped in every order, the orchestrator among them.
InitLifetime ==
    DslIdle /\ TextIdle /\ AtlasIdle /\ SwapIdle /\ LifeInit /\ SelIdle /\ LspIdle
    /\ FramesInit /\ PipesInit /\ WinInit
NextLifetime ==
    \/ \E failAt \in CreateFailures : CreateBuffer(failAt)
    \/ \E failAt \in CreateFailures : CreateImage(failAt)
    \/ WrapImage
    \/ \E modules \in 1..MaxModules, failAt \in PipelineFailures :
          CreatePipeline(modules, failAt)
    \/ \E kind \in HolderKinds : CreateHolder(kind)
    \/ \E i \in 1..MaxObjects : DropObject(i)
    \/ DropBackend
SpecLifetime == InitLifetime /\ [][NextLifetime]_vars

\* Device selection and creation over every enumeration of devices.
InitDevice ==
    DslIdle /\ TextIdle /\ AtlasIdle /\ SwapIdle /\ LifeIdle /\ SelInit /\ LspIdle
    /\ FramesInit /\ PipesInit /\ WinInit
NextDevice ==
    \/ \E enumerateOk \in BOOLEAN : SelectDevice(enumerateOk)
    \/ \E extensionsOk \in BOOLEAN, createOk \in BOOLEAN :
          DeviceCreate(extensionsOk, createOk)
SpecDevice == InitDevice /\ [][NextDevice]_vars

\* Framing and reading of protocol messages.
InitTransport == DslIdle /\ TextIdle /\ AtlasIdle /\ SwapIdle /\ LifeIdle
    /\ SelIdle /\ LspInit /\ FramesInit /\ PipesInit /\ WinInit
NextTransport ==
    \/ \E message \in Messages : TransportSend(message)
    \/ \E message \in PeerMessages, extra \in HeaderPlacements,
          withLength \in BOOLEAN : PeerWrite(message, extra, withLength)
    \/ ListenerRead
SpecTransport == InitTransport /\ [][NextTransport]_vars

\* The client thread's handlers under every interleaving of client requests
\* and server messages.
InitClient == DslIdle /\ TextIdle /\ AtlasIdle /\ SwapIdle /\ LifeIdle
    /\ SelIdle /\ LspInit /\ FramesInit /\ PipesInit /\ WinInit
NextClient ==
    \/ \E sendOk \in BOOLEAN : ClientRequest(sendOk)
    \/ \E msg \in ServerMessages : ProcessServerMessage(msg)
SpecClient == InitClient /\ [][NextClient]_vars

\* Render::draw_frame called again and again, with Render::resize between
\* calls and the GPU running beside them: each call runs begin_frame, then
\* writes the text buffer, the descriptor and the command buffer of the
\* frame it acquired (Record), then runs the backend's draw_frame.  A call
\* that returns early leaves its acquired image unused.
InFrame == beginsSinceDraw >= 1 /\ tokens # <<>>
\* render.rs:114-128: update_buffer and the recording of the command buffer
RenderRecord ==
    /\ InFrame
    /\ Record(Len(tokens))
\* render.rs:130: self.backend.draw_frame(next_image)
RenderSubmit(failAt) ==
    /\ InFrame
    /\ DrawFrame(Len(tokens), failAt)
\* Render::resize, between two calls of Render::draw_frame
RenderResize(width, height, ok) ==
    /\ ~InFrame
    /\ RecreateSwapchain(width, height, ok, IF ok THEN 0 ELSE 2)
InitRender == DslIdle /\ TextIdle /\ AtlasIdle /\ OtherIdle
    /\ FramesInit /\ PipesAfterRenderNew /\ WinInit
NextRender ==
    \/ BeginFrame
    \/ RenderRecord
    \/ \E failAt \in FailPoints : RenderSubmit(failAt)
    \/ GpuComplete
    \/ \E e \in Extents, ok \in BOOLEAN : RenderResize(e[1], e[2], ok)
SpecRender == InitRender /\ [][NextRender]_vars

\* A backend used through its public interface: shaders registered and
\* descriptor sets allocated in any order, then the backend dropped.
InitLayoutLife == DslIdle /\ TextIdle /\ AtlasIdle /\ OtherIdle
    /\ FramesInit /\ PipesInit /\ WinInit
NextLayoutLife ==
    \/ \E sh \in RegisterPool : RegisterShader(sh)
    \/ \E failAt \in AllocateFailures : AllocateDescriptorSet(failAt)
    \/ Drop
SpecLayoutLife == InitLayoutLife /\ [][NextLayoutLife]_vars

\* Buffer::map_memory on its own and under update_buffer.
InitMap ==
    DslIdle /\ MapInit /\ AtlasIdle /\ OtherIdle /\ FramesInit /\ PipesAfterRenderNew /\ WinInit
NextMap ==
    \/ MapMemory
    \/ \E vk \in VkMapResults : RenderDrawFrame(vk)
SpecMap == InitMap /\ [][NextMap]_vars

\* The three threads under their schedulers: a thread that can take a step
\* takes one.  The platform delivers window messages as the user makes them,
\* so WM_SIZE, key, paint and close messages carry no such condition.  Each
\* condition names variables its action always changes.
LiveResize ==
    /\ InitResize /\ [][NextResize]_vars
    /\ WF_winPc(WmSizeReturn)
    /\ WF_winPc(WmSizeRecvErr)
    /\ WF_winQueue(ClientRecv)
    /\ WF_clientPc(\E ok \in BOOLEAN : ClientResize(ok))
    /\ WF_clientPc(\E ok \in BOOLEAN : ClientDraw(ok))
    /\ WF_clientPc(ClientAck)
    /\ WF_<<mainPc, toServer>>(MainRecv)

(***************************************************************************)
(* Frame orchestration: properties of SpecFrames.                          *)
(***************************************************************************)
\* The objects a command buffer can reference that are alive.
LiveObjects ==
    {frames[i].fb : i \in DOMAIN frames}
    \cup {graphics_pipelines[i].handle : i \in DOMAIN graphics_pipelines}
    \cup {compute_pipelines[i].handle : i \in DOMAIN compute_pipelines}

\* C1: at most one submission per swapchain image is pending at any time,
\* and while the frame begin_frame returned for image i waits to be drawn no
\* submission that targeted image i is pending.
C1_OneSubmissionPerImage ==
    /\ \A i, j \in DOMAIN gpuQueue :
          i # j => gpuQueue[i].image # gpuQueue[j].image
    /\ (beginsSinceDraw > 0 /\ tokens # <<>>) =>
          \A s \in Range(gpuQueue) : s.image # tokens[Len(tokens)].index

\* C2: when begin_frame returns a second time with no draw_frame since the
\* first return, the fence held by the frame the first call returned is
\* signaled: the second call does not return before that.
C2_SecondBeginWaits ==
    [][(beginsSinceDraw >= 1 /\ Len(tokens') > Len(tokens)) =>
          LET first == frames[tokens[Len(tokens)].index + 1]
          IN  /\ first.in_flight # NoFence
              /\ fenceSignaled[first.in_flight[1]]]_vars

\* Two begin_frame calls in a row, after a frame has been submitted.
C2_Witness == beginsSinceDraw = 2 /\ drawResult = "Ok"

C5_FramesKeepHandles ==
    [][(gen' # gen /\ backendState' = "live") =>
          /\ Len(frames') = Len(frames)
          /\ \A i \in DOMAIN frames :
                /\ frames'[i].cb = frames[i].cb
                /\ frames'[i].in_flight = frames[i].in_flight
                /\ frames'[i].fb \notin {frames[j].fb : j \in DOMAIN frames}
          /\ \A i, j \in DOMAIN frames' :
                i # j => /\ frames'[i].cb # frames'[j].cb
                         /\ frames'[i].fb # frames'[j].fb]_vars

\* The swapchain was recreated while a frame held its in-flight fence.
C5_Witness ==
    /\ gen > 0 /\ backendState = "live"
    /\ \E i \in DOMAIN frames :
          frames[i].in_flight # NoFence /\ frames[i].fb[2] = gen

\* C7: an object referenced by a submission that stays pending over a step
\* is not destroyed by that step.
C7_NoDestroyWhilePending ==
    [][\A s \in Range(gpuQueue) \cap Range(gpuQueue') :
          (s.refs \cap LiveObjects) \subseteq LiveObjects']_vars

\* A frame was recorded and submitted, and the objects it was recorded with
\* have since been destroyed by a recreate or by the drop.
C7_Witness ==
    /\ drawResult = "Ok" /\ gen > 0
    /\ \E cb \in DOMAIN recorded :
          recorded[cb] # {} /\ recorded[cb] \cap LiveObjects = {}

(***************************************************************************)
(* The resize handshake: properties of SpecResize.                         *)
(***************************************************************************)
\* C4: whenever the acknowledgment of a Resize(w, h, Some(ack)) has been
\* sent, the swapchain has been resized to (w, h) and the latest frame was
\* drawn at (w, h); and the WM_SIZE handler goes back to the message pump
\* only with the acknowledgment received.
C4_AckAfterRedraw ==
    /\ [](ack.state = "sent" => (extent = ack.size /\ drawnExtent = ack.size))
    /\ [][(winPc = "wm_size" /\ winPc' = "pump") => ack.state = "sent"]_vars

\* The handler is waiting, and the acknowledgment of a resize to another
\* size than the one drawn before has been sent.
C4_Witness ==
    /\ winPc = "wm_size" /\ ack.state = "sent"
    /\ ack.size # InitialExtent /\ clientPc = "select"

(***************************************************************************)
(* Pipelines across a resize: properties of SpecPipelines.                 *)
(***************************************************************************)
\* C6: a recreate_swapchain(w, h) that returns Ok leaves as many graphics
\* pipelines as before; the pipeline at each index is a new object built
\* from the same shader pair and push-constant size with the extent (w, h);
\* compute pipelines, shaders, descriptor-set layouts and render pass stay.
C6_GraphicsPipelinesRebuilt ==
    [][(gen' # gen /\ backendState' = "live") =>
          /\ Len(graphics_pipelines') = Len(graphics_pipelines)
          /\ \A i \in DOMAIN graphics_pipelines :
                /\ graphics_pipelines'[i].shaders = graphics_pipelines[i].shaders
                /\ graphics_pipelines'[i].push_constant_bytes =
                      graphics_pipelines[i].push_constant_bytes
                /\ graphics_pipelines'[i].extent = extent'
                /\ graphics_pipelines'[i].handle # graphics_pipelines[i].handle
          /\ compute_pipelines' = compute_pipelines
          /\ shaders' = shaders
          /\ descriptor_set_layouts' = descriptor_set_layouts
          /\ render_pass' = render_pass]_vars

\* Two graphics pipelines with different push-constant sizes and a compute
\* pipeline, after a recreate to another extent than the first one.
C6_Witness ==
    /\ gen > 0 /\ backendState = "live" /\ extent # InitialExtent
    /\ Len(compute_pipelines) > 0
    /\ Len(graphics_pipelines) = 2
    /\ graphics_pipelines[1].handle[3] = gen
    /\ graphics_pipelines[1].extent = extent
    /\ graphics_pipelines[1].push_constant_bytes
          # graphics_pipelines[2].push_constant_bytes

(***************************************************************************)
(* The descriptor-set-layout merge: properties of SpecLayouts.             *)
(***************************************************************************)
\* C8: the merge of a shader list and the merge of any reordering of it give
\* the same result: both fail, or both succeed with the same sets, the same
\* bindings in each set and the same pool sizes.
C8_OrderIndependent ==
    dslResult # <<>> => dslResult[1] = dslResult[2]

\* A reordered list that merges successfully, with a binding two shader
\* stages share and two descriptor kinds in the pool sizes.
C8_Witness ==
    /\ dslResult # <<>> /\ dslShaders # dslPermuted
    /\ dslResult[1].ok
    /\ Len(dslResult[1].pool_sizes) >= 2
    /\ \E s \in DOMAIN dslResult[1].layouts :
          \E b \in Range(dslResult[1].layouts[s]) :
              Cardinality(b.stage_flags) >= 2

\* C9: if two declarations of one (set, binding) differ in kind or count the
\* merge fails and returns no layouts; otherwise it succeeds and every
\* binding's stage flags are the stages of all shaders that declare it.
C9_ConflictOrUnion ==
    dslResult # <<>> =>
        LET r == dslResult[1]
            decls == UNION {{[stage |-> dslShaders[i].stage,
                              d |-> dslShaders[i].descriptors[k]] :
                                 k \in DOMAIN dslShaders[i].descriptors} :
                            i \in DOMAIN dslShaders}
            same(a, b) == a.d.set = b.d.set /\ a.d.binding = b.d.binding
            clash == \E a, b \in decls :
                         /\ same(a, b)
                         /\ (a.d.kind # b.d.kind \/ a.d.count # b.d.count)
        IN  /\ clash => (~r.ok /\ DOMAIN r = {"ok", "err"})
            /\ ~clash =>
                  /\ r.ok
                  /\ \A a \in decls :
                        \E b \in Range(r.layouts[a.d.set + 1]) :
                            /\ b.binding = a.d.binding
                            /\ b.stage_flags =
                                  {c.stage : c \in {x \in decls : same(a, x)}}

\* Two shaders declare one (set, binding) with the same kind and another
\* count, and the merge has failed.
C9_Witness ==
    /\ dslResult # <<>> /\ ~dslResult[1].ok
    /\ \E i, j \in DOMAIN dslShaders :
          \E k \in DOMAIN dslShaders[i].descriptors :
              \E l \in DOMAIN dslShaders[j].descriptors :
                  LET a == dslShaders[i].descriptors[k]
                      b == dslShaders[j].descriptors[l]
                  IN  /\ i # j
                      /\ a.set = b.set /\ a.binding = b.binding
                      /\ a.kind = b.kind /\ a.count # b.count

\* C10: the error of a failed merge carries the set index and the binding
\* index of a declaration that disagrees with another one.
C10_ErrorNamesSetAndBinding ==
    (dslResult # <<>> /\ ~dslResult[1].ok) =>
        \E i, j \in DOMAIN dslShaders :
            \E k \in DOMAIN dslShaders[i].descriptors :
                \E l \in DOMAIN dslShaders[j].descriptors :
                    LET a == dslShaders[i].descriptors[k]
                        b == dslShaders[j].descriptors[l]
                    IN  /\ a.set = b.set /\ a.binding = b.binding
                        /\ (a.kind # b.kind \/ a.count # b.count)
                        /\ dslResult[1].err.args = <<a.set, a.binding>>

\* The (set, binding) slots the shaders of a list declare, each once, with
\* the kind and count of its first declaration.
DeclaredSlots(ss) ==
    LET decls == UNION {{ss[i].descriptors[k] :
                            k \in DOMAIN ss[i].descriptors} : i \in DOMAIN ss}
    IN  {[set |-> d.set, binding |-> d.binding, kind |-> d.kind,
          count |-> d.count] : d \in decls}

RECURSIVE SumOfCounts(_)
SumOfCounts(slots) ==
    IF slots = {} THEN 0
    ELSE LET x == CHOOSE y \in slots : TRUE
         IN  x.count + SumOfCounts(slots \ {x})

\* C11: a successful merge returns one layout more than the highest set
\* index a shader references, and the layout of a set index no shader
\* references has no bindings.
C11_SetCount ==
    (dslResult # <<>> /\ dslResult[1].ok /\ DeclaredSlots(dslShaders) # {}) =>
        LET slots == DeclaredSlots(dslShaders)
            top == CHOOSE m \in {x.set : x \in slots} :
                       \A x \in slots : x.set <= m
        IN  /\ Len(dslResult[1].layouts) = top + 1
            /\ \A n \in 0..top :
                  (\A x \in slots : x.set # n) =>
                      dslResult[1].layouts[n + 1] = <<>>

\* A merge of shaders that reference sets 0 and 2 and not set 1.
C11_Witness ==
    /\ dslResult # <<>> /\ dslResult[1].ok
    /\ Len(dslResult[1].layouts) = 3
    /\ dslResult[1].layouts[2] = <<>>
    /\ dslResult[1].layouts[1] # <<>> /\ dslResult[1].layouts[3] # <<>>
    /\ Len(dslShaders) >= 2
    /\ \E x \in DeclaredSlots(dslShaders) : x.set = 2

\* C12: the pool sizes of a successful merge hold one entry per descriptor
\* kind that occurs, and its descriptor_count is the sum of the counts of
\* the merged slots of that kind, a slot counted once.
C12_PoolSizes ==
    (dslResult # <<>> /\ dslResult[1].ok) =>
        LET pool == dslResult[1].pool_sizes
            slots == DeclaredSlots(dslShaders)
        IN  /\ \A i, j \in DOMAIN pool : pool[i].ty = pool[j].ty => i = j
            /\ {pool[i].ty : i \in DOMAIN pool} = {x.kind : x \in slots}
            /\ \A i \in DOMAIN pool :
                  pool[i].descriptor_count =
                      SumOfCounts({x \in slots : x.kind = pool[i].ty})

\* Two kinds in the pool, one of them summed over several slots, and a slot
\* that more than one shader declares.
C12_Witness ==
    /\ dslResult # <<>> /\ dslResult[1].ok
    /\ Len(dslResult[1].pool_sizes) = 2
    /\ \E i \in DOMAIN dslResult[1].pool_sizes :
          dslResult[1].pool_sizes[i].descriptor_count >= 3
    /\ \E i, j \in DOMAIN dslShaders :
          /\ i # j
          /\ Range(dslShaders[i].descriptors)
                \cap Range(dslShaders[j].descriptors) # {}

\* C13: a pipeline is created against the layouts computed from the shaders
\* registered at that moment: the backend's layouts are those of the full
\* registered set whenever create_graphics_pipeline or
\* create_compute_pipeline runs.
C13_LayoutsFollowShaders ==
    [][(\/ Len(graphics_pipelines') > Len(graphics_pipelines)
        \/ Len(compute_pipelines') > Len(compute_pipelines)) =>
          LET r == create_descriptor_set_layouts(shaders)
          IN  /\ r.ok
              /\ [i \in DOMAIN descriptor_set_layouts |->
                     descriptor_set_layouts[i].bindings] = r.layouts]_vars

(***************************************************************************)
(* The frame composer: properties of SpecText.                             *)
(***************************************************************************)
\* The entries written are one per character with a glyph, in text order,
\* each with its character's tile, the number of glyph characters since the
\* last newline without a glyph as pos_x and the number of such newlines
\* before it as pos_y.
PlacementsMatchText ==
    LET P == {i \in 1..Len(text) : text[i] \in DOMAIN atlas.map}
        NL == {i \in 1..Len(text) : text[i] = "\n" /\ i \notin P}
        lastNL(i) == CHOOSE m \in {0} \cup {j \in NL : j < i} :
                         \A j \in NL : j < i => j <= m
        row == atlas.dims[1] \div atlas.glyph_dims[1]
        entry(i) ==
            [atlas_x |-> atlas.map[text[i]] % row,
             atlas_y |-> atlas.map[text[i]] \div row,
             pos_x |-> Cardinality({j \in P : lastNL(i) < j /\ j < i}),
             pos_y |-> Cardinality({j \in NL : j < i})]
        rank(i) == Cardinality({j \in P : j <= i})
    IN  /\ Len(text_buffer.written) = Cardinality(P)
        /\ \A i \in P : text_buffer.written[rank(i)] = entry(i)

\* C14 as stated: for any text, update_buffer writes the placement entries
\* of the text.
C14_AnyTextPlaced ==
    updateResult # "none" => (updateResult = "Ok" /\ PlacementsMatchText)

\* What update_buffer guarantees: a text that fits the text buffer gets the
\* placement entries of the text ("ab\nc" with glyphs for a, b, c gives a at
\* (0,0), b at (1,0), c at (0,1)); for a longer text it returns the mapping
\* error and writes nothing.
FittingTextPlaced ==
    updateResult # "none" =>
        /\ Len(text) * SizeOfCharEntry <= text_buffer.size =>
              \/ updateResult = "Ok" /\ PlacementsMatchText
              \/ /\ updateResult = "ERROR_MEMORY_MAP_FAILED"
                 /\ text_buffer.written = <<>>
        /\ Len(text) * SizeOfCharEntry > text_buffer.size =>
              (updateResult = OutsideLimits /\ text_buffer.written = <<>>)
        /\ (/\ text = <<"a", "b", "\n", "c">>
            /\ "\n" \notin DOMAIN atlas.map
            /\ updateResult = "Ok") =>
              [i \in 1..Len(text_buffer.written) |->
                  <<text_buffer.written[i].pos_x,
                    text_buffer.written[i].pos_y>>]
                = <<(<<0, 0>>), (<<1, 0>>), (<<0, 1>>)>>

\* update_buffer has placed "ab\nc".
PlacedExample ==
    /\ updateResult = "Ok"
    /\ text = <<"a", "b", "\n", "c">>
    /\ "\n" \notin DOMAIN atlas.map
    /\ Len(text_buffer.written) = 3

\* C15: the dispatch Render::draw_frame records has as many work groups as
\* update_buffer wrote placement entries for the frame.
C15_DispatchCountsEntries ==
    dispatch # <<>> => dispatch[1] = Len(text_buffer.written)

(***************************************************************************)
(* The glyph atlas: properties of SpecAtlas.                               *)
(***************************************************************************)
PowersOfTwo == {1, 2, 4, 8, 16, 32, 64, 128, 256, 512, 1024}

\* C16: the texture width W of GlyphAtlas::new is the smallest power of two
\* with (W / glyph_width) * (W / glyph_height) >= glyph_count.
C16_SmallestPowerOfTwoWidth ==
    glyphAtlas # <<>> =>
        LET W == glyphAtlas[1].texture_width
            cells(x) == (x \div font.glyph_width) * (x \div font.glyph_height)
        IN  /\ W \in PowersOfTwo
            /\ cells(W) >= font.glyph_count
            /\ \A x \in PowersOfTwo : x < W => cells(x) < font.glyph_count

\* A font whose glyphs fill the texture exactly: four 8x8 glyphs, width 16.
C16_Witness ==
    /\ glyphAtlas # <<>>
    /\ font.glyph_count = 4
    /\ font.glyph_width = 8
    /\ font.glyph_height = 8
    /\ glyphAtlas[1].texture_width = 16

\* C17: the texture height H of GlyphAtlas::new is the smallest member of
\* W, W/2, W/4, ... with H >= rows_used * glyph_height, where rows_used =
\* ceil(glyph_count / (W / glyph_width)): every glyph tile and every
\* rasterized pixel lies inside the W x H staging buffer, H / 2 would not
\* fit, and one 8x8 glyph gives an 8x8 texture.
C17_HeightHoldsRows ==
    glyphAtlas # <<>> =>
        LET a == glyphAtlas[1]
            W == a.texture_width
            H == a.texture_height
            per_row == W \div font.glyph_width
            rows == (font.glyph_count + per_row - 1) \div per_row
        IN  /\ H >= rows * font.glyph_height
            /\ H \div 2 < rows * font.glyph_height
            /\ \E k \in PowersOfTwo : H = W \div k
            /\ \A i \in DOMAIN a.tiles :
                   /\ (a.tiles[i][1] + 1) * font.glyph_width <= W
                   /\ (a.tiles[i][2] + 1) * font.glyph_height <= H
            /\ \A px \in a.pixels : px < W * H
            /\ a.state = "built"
            /\ (/\ font.glyph_count = 1
                /\ font.glyph_width = 8
                /\ font.glyph_height = 8) => <<W, H>> = <<8, 8>>

\* C18 as stated: five 8x8 glyphs give a texture of width 32 and height 8.
C18_FiveGlyphs32x8 ==
    (/\ glyphAtlas # <<>>
     /\ font.glyph_count = 5
     /\ font.glyph_width = 8
     /\ font.glyph_height = 8) =>
        <<glyphAtlas[1].texture_width, glyphAtlas[1].texture_height>>
            = <<32, 8>>

\* C18, amended: five 8x8 glyphs give a texture of width 32 and height 16
\* (two rows of four 8x8 tiles).
C18_FiveGlyphs32x16 ==
    (/\ glyphAtlas # <<>>
     /\ font.glyph_count = 5
     /\ font.glyph_width = 8
     /\ font.glyph_height = 8) =>
        /\ <<glyphAtlas[1].texture_width, glyphAtlas[1].texture_height>>
               = <<32, 16>>
        /\ glyphAtlas[1].dims = <<32, 16>>

\* The atlas of five 8x8 glyphs has been sized.
C18_Witness ==
    /\ glyphAtlas # <<>>
    /\ font.glyph_count = 5
    /\ font.glyph_width = 8
    /\ font.glyph_height = 8
    /\ glyphAtlas[1].texture_width = 32

\* C19: with row_length = texture_width / glyph_width, for every tile index
\* i below glyph_count, idx_to_coords(i) = (x, y) has x < row_length and
\* y * row_length + x = i, and (x, y) is the tile glyph i was rasterized at.
C19_TileRoundTrip ==
    (glyphAtlas # <<>> /\ glyphAtlas[1].state = "built") =>
        LET a == glyphAtlas[1]
            row_length == a.texture_width \div font.glyph_width
        IN  \A i \in 0..(font.glyph_count - 1) :
                LET xy == idx_to_coords(a, a.map[i])
                IN  /\ xy[1] < row_length
                    /\ xy[2] * row_length + xy[1] = i
                    /\ xy = a.tiles[i]

\* An atlas with a second row of tiles has been built.
C19_Witness ==
    /\ glyphAtlas # <<>>
    /\ glyphAtlas[1].state = "built"
    /\ font.glyph_count = 5
    /\ font.ink = "full"
    /\ glyphAtlas[1].tiles[4] = <<0, 1>>
    /\ idx_to_coords(glyphAtlas[1], 4) = <<0, 1>>

(***************************************************************************)
(* DxgiSwapchain::present: properties of SpecFrames.                       *)
(***************************************************************************)
\* C20 as stated: before the foreign Present, present has waited on the
\* semaphore acquire_next_image signaled for the image.
C20_PresentWaitsOnAcquired ==
    \A j \in DOMAIN presentLog :
        presentLog[j].op = "Present" =>
            \E i \in 1..(j - 1) :
                /\ presentLog[i].op = "wait_semaphores"
                /\ presentLog[i].result = "Ok"
                /\ presentLog[i].semaphore = lastCalls[3].image.acquire_semaphore

\* C20, amended: before the foreign Present, present has made one
\* wait_semaphores call, with wait value 0 and timeout 0, on the image's
\* rendering-finished semaphore, which is not the semaphore
\* acquire_next_image signaled, and that call has returned Ok; when the
\* call fails Present is not made.
C20_PresentWaitsOnFinished ==
    /\ \A j \in DOMAIN presentLog :
          presentLog[j].op = "Present" =>
              /\ j = 2
              /\ lastCalls[3].op = "present"
              /\ presentLog[1] =
                    [op |-> "wait_semaphores",
                     semaphore |->
                         lastCalls[3].image.rendering_finished_semaphore,
                     value |-> 0, timeout |-> 0, result |-> "Ok"]
              /\ presentLog[1].semaphore #
                    lastCalls[3].image.acquire_semaphore
              /\ acquireSem >= 1
    /\ (presentLog # <<>> /\ presentLog[1].result = "Err") =>
          (Len(presentLog) = 1 /\ drawResult = "Err")
    /\ (drawResult = "Ok" /\ nDraw > 0) => Len(presentLog) = 2

\* A frame has been presented.
C20_Witness ==
    /\ drawResult = "Ok"
    /\ Len(presentLog) = 2
    /\ presentLog[2].op = "Present"

\* C21: the foreign Present of a frame is not called until the
\* rendering-finished timeline semaphore has reached the value the frame's
\* queue submission signals.
C21_PresentAfterRendering ==
    \A j \in DOMAIN presentLog :
        presentLog[j].op = "Present" =>
            /\ lastCalls[2].op = "queue_submit"
            /\ finishedSem >= lastCalls[2].signal[2]

C23_StaleSurfaceNoImage ==
    \A i \in DOMAIN lastAcquire :
        (/\ lastAcquire[i].surface # "matches"
         /\ lastAcquire[i].raw # "ERROR_DEVICE_LOST") =>
            /\ lastAcquire[i].result = "RecreateSwapchain"
            /\ lastAcquire[i].image = <<>>

\* The native variant does so.
NativeStaleSurfaceNoImage ==
    \A i \in DOMAIN lastAcquire :
        (/\ lastAcquire[i].variant = "native"
         /\ lastAcquire[i].surface # "matches"
         /\ lastAcquire[i].raw # "ERROR_DEVICE_LOST") =>
            /\ lastAcquire[i].result = "RecreateSwapchain"
            /\ lastAcquire[i].image = <<>>

\* C24: in both variants, present returns Ok on an out-of-date result of
\* the presentation call, and returns an error, without aborting, on any
\* other failure of it.
C24_StaleOkOtherwiseErr ==
    \A i \in DOMAIN lastPresent :
        /\ lastPresent[i].raw = "ERROR_OUT_OF_DATE_KHR" =>
              lastPresent[i].result = "Ok"
        /\ lastPresent[i].raw \in {"ERROR_DEVICE_LOST", "ERROR_SURFACE_LOST_KHR",
                                  "DXGI_ERROR_DEVICE_REMOVED"} =>
              lastPresent[i].result = "Err"
        /\ lastPresent[i].result \in {"Ok", "Err"}

\* The native variant does so.
NativeStaleOkOtherwiseErr ==
    \A i \in DOMAIN lastPresent :
        lastPresent[i].variant = "native" =>
            /\ lastPresent[i].raw = "ERROR_OUT_OF_DATE_KHR" =>
                  lastPresent[i].result = "Ok"
            /\ lastPresent[i].raw \in {"ERROR_DEVICE_LOST",
                                      "ERROR_SURFACE_LOST_KHR"} =>
                  lastPresent[i].result = "Err"
            /\ lastPresent[i].result \in {"Ok", "Err"}

\* C25: with N semaphore pairs, the k-th successful acquire_next_image of
\* the native swapchain (k from 0) returns the two semaphores at ring index
\* k mod N; the ring index stays below N; a failed acquire leaves it alone;
\* recreate hands the ring index and the same semaphores to the new
\* swapchain.
C25_RoundRobin ==
    /\ [](swapchain.next_semaphore < Len(swapchain.acquire_semaphores))
    /\ [][/\ (/\ lastAcquire' # <<>>
               /\ lastAcquire'[1].variant = "native"
               /\ \/ lastAcquire = <<>>
                  \/ lastAcquire[1].variant # "native"
                  \/ lastAcquire'[1] # lastAcquire[1]) =>
              LET N == Len(swapchain.acquire_semaphores)
                  k == acquireCount
              IN  IF lastAcquire'[1].result = "Ok"
                  THEN /\ acquireCount' = k + 1
                       /\ lastAcquire'[1].image[1].acquire_semaphore =
                             swapchain.acquire_semaphores[(k % N) + 1]
                       /\ lastAcquire'[1].image[1].rendering_finished_semaphore
                             = swapchain.rendering_finished_semaphores[
                                   (k % N) + 1]
                       /\ swapchain'.next_semaphore = (k + 1) % N
                  ELSE /\ acquireCount' = k
                       /\ swapchain' = swapchain
          /\ swapchain'.raw # swapchain.raw =>
              /\ swapchain'.next_semaphore = swapchain.next_semaphore
              /\ swapchain'.acquire_semaphores = swapchain.acquire_semaphores
              /\ swapchain'.rendering_finished_semaphores =
                    swapchain.rendering_finished_semaphores
              /\ Len(swapchain'.acquire_semaphores) =
                    Len(swapchain'.rendering_finished_semaphores)]_vars

\* The ring of three has wrapped: the fourth acquire, made after a
\* recreate, returned the first pair again.
C25_Witness ==
    /\ Len(swapchain.acquire_semaphores) = 3
    /\ acquireCount = 4
    /\ swapchain.next_semaphore = 1
    /\ swapchain.raw = 1
    /\ lastAcquire # <<>>
    /\ lastAcquire[1].variant = "native"
    /\ lastAcquire[1].result = "Ok"
    /\ lastAcquire[1].image[1].acquire_semaphore = <<"acquire", 0>>

(***************************************************************************)
(* Release order of buffers, images and pipelines; lifetime of the device  *)
(* context.                                                                 *)
(***************************************************************************)
ObjectCalls(i) == SelectSeq(vkLog, LAMBDA c : c.obj = i)
CallsOf(i, op) == {k \in DOMAIN ObjectCalls(i) : ObjectCalls(i)[k].op = op}

OwnsMemory(i) ==
    /\ objects[i].state # "failed"
    /\ objects[i].kind = "buffer"
       \/ (objects[i].kind = "image" /\ objects[i].memory)
BindOf(i) ==
    IF objects[i].kind = "buffer" THEN "bind_buffer_memory"
    ELSE "bind_image_memory"
CreateOf(i) ==
    IF objects[i].kind = "buffer" THEN "create_buffer" ELSE "create_image"
DestroyOf(i) ==
    IF objects[i].kind = "buffer" THEN "destroy_buffer" ELSE "destroy_image"

\* The object's first three calls create the handle, allocate the memory and
\* bind it; no other call for the object binds memory.
BoundOnceAtCreation(i) ==
    /\ Len(ObjectCalls(i)) >= 3
    /\ ObjectCalls(i)[1].op = CreateOf(i)
    /\ ObjectCalls(i)[2].op = "allocate_memory"
    /\ CallsOf(i, BindOf(i)) = {3}

\* Each of the two calls is made exactly once for the object, `first` before
\* `second`.
OnceInOrder(i, first, second) ==
    /\ Cardinality(CallsOf(i, first)) = 1
    /\ Cardinality(CallsOf(i, second)) = 1
    /\ \A k \in CallsOf(i, first), l \in CallsOf(i, second) : k < l

NotReleased(i) ==
    CallsOf(i, "free_memory") = {} /\ CallsOf(i, DestroyOf(i)) = {}

\* C26 as stated: memory is bound to a Buffer or Image exactly once, at
\* creation, and dropping a Buffer or an Image that owns memory frees the
\* memory first and then destroys the native handle, each exactly once.
C26_MemoryFreedThenHandle ==
    \A i \in DOMAIN objects :
        OwnsMemory(i) =>
            /\ BoundOnceAtCreation(i)
            /\ objects[i].state = "live" => NotReleased(i)
            /\ objects[i].state = "dropped" =>
                   OnceInOrder(i, "free_memory", DestroyOf(i))

\* C26, amended: memory is bound to a Buffer or Image exactly once, at
\* creation; dropping a Buffer frees its memory and then destroys the buffer,
\* dropping an Image that owns memory destroys the image and then frees its
\* memory, each exactly once.
C26_BufferMemoryFirstImageHandleFirst ==
    \A i \in DOMAIN objects :
        OwnsMemory(i) =>
            /\ BoundOnceAtCreation(i)
            /\ objects[i].state = "live" => NotReleased(i)
            /\ (objects[i].state = "dropped" /\ objects[i].kind = "buffer") =>
                   OnceInOrder(i, "free_memory", "destroy_buffer")
            /\ (objects[i].state = "dropped" /\ objects[i].kind = "image") =>
                   OnceInOrder(i, "destroy_image", "free_memory")

C26_Witness ==
    \E i \in DOMAIN objects, j \in DOMAIN objects :
        /\ objects[i].kind = "buffer" /\ objects[i].state = "dropped"
        /\ objects[j].kind = "image" /\ objects[j].memory
        /\ objects[j].state = "dropped"

IsDroppedPipeline(i) ==
    objects[i].kind = "pipeline" /\ objects[i].state = "dropped"
ModuleDestroys(i, n) ==
    {k \in CallsOf(i, "destroy_shader_module") : ObjectCalls(i)[k].n = n}
EachReleasedOnce(i) ==
    /\ Cardinality(CallsOf(i, "destroy_pipeline")) = 1
    /\ Cardinality(CallsOf(i, "destroy_pipeline_layout")) = 1
    /\ Cardinality(CallsOf(i, "destroy_shader_module")) = objects[i].modules
    /\ \A n \in 1..objects[i].modules : Cardinality(ModuleDestroys(i, n)) = 1
\* every call `first` for the object comes before every call `second`
AllBefore(i, first, second) ==
    \A k \in CallsOf(i, first), l \in CallsOf(i, second) : k < l

\* C27 as stated: dropping a compute or graphics pipeline releases the
\* pipeline handle first, then the pipeline layout, then the shader modules,
\* each exactly once.
C27_PipelineLayoutModules ==
    \A i \in DOMAIN objects :
        IsDroppedPipeline(i) =>
            /\ EachReleasedOnce(i)
            /\ AllBefore(i, "destroy_pipeline", "destroy_pipeline_layout")
            /\ AllBefore(i, "destroy_pipeline_layout", "destroy_shader_module")

\* C27, amended: dropping a compute or graphics pipeline releases the shader
\* modules first, then the pipeline layout, then the pipeline handle, each
\* exactly once.
C27_ModulesLayoutPipeline ==
    \A i \in DOMAIN objects :
        IsDroppedPipeline(i) =>
            /\ EachReleasedOnce(i)
            /\ AllBefore(i, "destroy_shader_module", "destroy_pipeline_layout")
            /\ AllBefore(i, "destroy_pipeline_layout", "destroy_pipeline")

C27_Witness ==
    \E i \in DOMAIN objects : IsDroppedPipeline(i) /\ objects[i].modules = 2

DeviceDestroys == {k \in DOMAIN vkLog : vkLog[k].op = "destroy_device"}
PoolDestroys == {k \in DOMAIN vkLog : vkLog[k].op = "destroy_command_pool"}
\* the objects that hold an Arc<Device>, and the orchestrator, are all gone
AllHoldersDropped ==
    /\ orchestrator = "dropped"
    /\ \A i \in DOMAIN objects : objects[i].state # "live"

\* C28: the logical device and its command pool are destroyed only after
\* every object that holds a reference to the device context has been
\* destroyed, whatever the order in which their owners are dropped; the
\* device is destroyed exactly once, by the last holder.
C28_DeviceDestroyedLast ==
    /\ Cardinality(DeviceDestroys) <= 1
    /\ Cardinality(PoolDestroys) <= 1
    /\ DeviceDestroys # {} <=> AllHoldersDropped
    /\ PoolDestroys # {} <=> AllHoldersDropped
    /\ \A k \in DeviceDestroys :
           k = Len(vkLog) /\ PoolDestroys = {k - 1}

C28_Witness ==
    /\ DeviceDestroys # {}
    /\ Len(objects) = MaxObjects
    /\ \A i \in DOMAIN objects : objects[i].state = "dropped"
    /\ \E k \in DOMAIN vkLog, l \in DOMAIN vkLog :
           /\ vkLog[k].op = "device_wait_idle"
           /\ k < l
           /\ vkLog[l].obj # 0

SomeDeviceSupports ==
    \E d \in DOMAIN pdevices : supports_presentation(pdevices[d])

\* C29: physical-device selection returns a device that has a graphics queue
\* family able to present to the surface whenever at least one enumerated
\* device has one, whatever its position in the enumeration order, and fails
\* with 'no suitable device found' only when no enumerated device has one.
C29_SelectsWheneverOneSupports ==
    \A s \in DOMAIN selection :
        /\ selection[s].tag = "Ok" =>
               supports_presentation(pdevices[selection[s].pdevice])
        /\ SomeDeviceSupports =>
               \/ selection[s].tag = "Ok"
               \/ selection[s].msg = "enumerate_physical_devices"
        /\ (selection[s].tag = "Err"
            /\ selection[s].msg = "no suitable device found")
               => ~SomeDeviceSupports

\* C30: Device::create creates exactly one queue, and the queue family it is
\* taken from supports both graphics and presentation to the surface, for
\* every combination of queue families of the selected physical device.
C30_QueueGraphicsAndPresent ==
    \A d \in DOMAIN logicalDevice :
        logicalDevice[d].tag = "Ok" =>
            /\ Len(logicalDevice[d].queue_infos) = 1
            /\ LET qfs == pdevices[selection[1].pdevice]
                   q == logicalDevice[d].queue.family + 1
               IN  qfs[q].graphics /\ qfs[q].present

\* ---------------------------------------------------------------------
\* C31. A failed queue submission.
\* ---------------------------------------------------------------------

\* The state right after a draw_frame whose queue_submit returned an error.
SubmitFailed == nDraw >= 1 /\ drawError = "queue_submit"

\* C31: a draw_frame whose queue submission fails returns the error and
\* does nothing after it: no submission reaches the queue (none is retried),
\* nothing is presented, and the frame slot and the timeline value stay as
\* they were.
C31_FailedSubmitStopsDrawFrame ==
    [][(nDraw' = nDraw + 1 /\ drawError' = "queue_submit")
         => /\ drawResult' = "Err"
            /\ \A i \in DOMAIN lastCalls' :
                  lastCalls'[i].op \notin {"queue_submit", "present",
                                           "advance_slot"}
            /\ gpuQueue' = gpuQueue
            /\ presentLog' = <<>>
            /\ swapIndex' = swapIndex
            /\ frame' = frame
            /\ DRAW_VALUE' = DRAW_VALUE]_vars
C31_Witness ==
    SubmitFailed /\ drawResult = "Err" /\ DRAW_VALUE = 2 /\ nDraw = 2

\* ---------------------------------------------------------------------
\* C32. Transport framing.
\* ---------------------------------------------------------------------

\* The frame is a Content-Length header carrying the byte length of the
\* JSON text of the message, an empty line, and that text.
FramedExactly(w) ==
    LET body == to_string(w.message)
        value == SubSeq(w.bytes, 3, Len(w.bytes) - Len(body) - 4)
    IN  /\ w.bytes = <<"Content-Length", ": ">> \o value \o CRLF \o CRLF
                       \o body
        /\ ParseUsize(value) = Some(TextLen(body))
RECURSIVE Unread(_)
Unread(ws) == IF ws = <<>> THEN <<>> ELSE Head(ws).bytes \o Unread(Tail(ws))
\* Every call so far returned a message, and what is left in the pipe is
\* the frames written after those the calls consumed.
OneFramePerCall ==
    ~ListenerStopped =>
        /\ Len(received) <= Len(outbox)
        /\ stream = Unread(SubSeq(outbox, Len(received) + 1, Len(outbox)))
\* The i-th call returned the error of a frame without Content-Length.
ReadFails(i) ==
    received[i].tag = "Err" /\ received[i].msg = "missing context length"
FramingHolds ==
    /\ \A i \in DOMAIN outbox : outbox[i].by = "send" => FramedExactly(outbox[i])
    /\ OneFramePerCall
    /\ \A i \in DOMAIN received : ~outbox[i].length => ReadFails(i)

\* What a message reads back as: a Response whose result is null comes back
\* with no result.
ReadBack(message) ==
    IF message.kind = "Response" /\ message.result = Some(Null)
    THEN Response(message.id, Nothing, message.error)
    ELSE message

AcquireSignaled == Len(tokens') > Len(tokens)
\* A draw_frame handed a submission to the queue in this step.
Submitted == Len(gpuQueue') > Len(gpuQueue)
\* The GPU finished a submission, signaling the render-finished semaphore.
FinishSignaled == Len(gpuQueue') < Len(gpuQueue)

\* C33: each value signaled on the acquire semaphore and on the
\* render-finished semaphore is greater than every value signaled on it
\* before, and a submission waits on the acquire semaphore for a value that
\* is at most the value already signaled on it, so its wait ends.
C33_TimelineValuesIncrease ==
    [][/\ AcquireSignaled => acquireSem' > acquireSem
       /\ FinishSignaled =>
             /\ Head(gpuQueue).signal > finishedSem
             /\ finishedSem' = Head(gpuQueue).signal
       /\ Submitted =>
             /\ gpuQueue'[Len(gpuQueue')].wait <= acquireSem
             /\ gpuQueue'[Len(gpuQueue')].wait >= 1]_vars
C33_Witness ==
    /\ gen > 0 /\ nDraw = 2 /\ gpuQueue = <<>>
    /\ acquireSem = 2 /\ finishedSem = 2

\* ---------------------------------------------------------------------
\* C34. Host writes and the in-flight fence.
\* ---------------------------------------------------------------------

\* The command buffer of the frame the running Render::draw_frame acquired.
AcquiredCb == frames[tokens[Len(tokens)].index + 1].cb

\* C34: from the return of begin_frame to the backend's draw_frame, which
\* is when Render::draw_frame writes the text buffer, rebinds it and
\* re-records the command buffer of the acquired frame, the fence wait of
\* begin_frame has returned and no submission is pending on the GPU.
\* Every submission binds that buffer and that descriptor set, so none is
\* executing while they are written, and none uses the command buffer
\* being recorded.
C34_WritesAfterFenceWait ==
    InFrame =>
        /\ gpuQueue = <<>>
        /\ fenceSignaled[in_flight_fences[frame]]
        /\ \A i \in DOMAIN gpuQueue : gpuQueue[i].cb # AcquiredCb
C34_Witness ==
    /\ InFrame /\ nDraw >= 1 /\ finishedSem >= 1
    /\ AcquiredCb = 1 /\ recorded[AcquiredCb] # {}

\* ---------------------------------------------------------------------
\* C35. Request ids and callbacks.
\* ---------------------------------------------------------------------

\* Ids are handed out 0, 1, 2, ... in the order of the requests, and the
\* pending list is strictly increasing in id.
PendingSorted ==
    /\ \A i \in DOMAIN pending_requests :
          pending_requests[i].id = pending_requests[i].callback - 1
    /\ \A i, j \in DOMAIN pending_requests :
          i < j => pending_requests[i].id < pending_requests[j].id
    /\ request_counter = requested
\* No callback ran twice, and none that ran is still pending.
CalledOnce ==
    /\ \A i, j \in DOMAIN handled :
          (i # j /\ handled[i].called # Nothing /\ handled[j].called # Nothing)
             => handled[i].called[1].callback # handled[j].called[1].callback
    /\ \A i \in DOMAIN handled, j \in DOMAIN pending_requests :
          handled[i].called # Nothing
             => handled[i].called[1].callback # pending_requests[j].callback
\* The step that processes a server response.
ResponseStep ==
    LET resp == handled'[Len(handled')].response
        called == handled'[Len(handled')].called
        match == {i \in DOMAIN pending_requests :
                     pending_requests[i].id = resp.id}
    IN  IF match = {}
        THEN /\ called = Nothing
             /\ clientError' = "no matching request id for response"
             /\ pending_requests' = pending_requests
        ELSE /\ called # Nothing
             /\ \A i \in match :
                   /\ called[1].callback = pending_requests[i].callback
                   /\ pending_requests' = RemoveAt(pending_requests, i)
             /\ called[1].result.tag =
                   (IF resp.error # Nothing THEN "Err" ELSE "Ok")
             /\ called[1].result.value =
                   (IF resp.error # Nothing THEN resp.error[1]
                    ELSE IF resp.result # Nothing THEN resp.result[1]
                    ELSE Null)

\* C35: request ids count up from 0; the pending list stays sorted by id
\* without duplicates; a response whose id is pending calls the callback
\* of exactly that request, once, with Err when it carries an error and
\* otherwise Ok with its result or Null, and removes the entry; a response
\* whose id is not pending calls nothing and gives the error "no matching
\* request id for response".
C35_IdsSortedCallbacksOnce ==
    /\ [](PendingSorted /\ CalledOnce)
    /\ [][Len(handled') > Len(handled) => ResponseStep]_vars
C35_Witness ==
    /\ Len(handled) = 2 /\ requested = 2 /\ Len(pending_requests) = 1
    /\ handled[1].called # Nothing /\ handled[1].response.id = 1
    /\ handled[2].called = Nothing /\ handled[2].response.id = 1
    /\ clientError = "no matching request id for response"

\* ---------------------------------------------------------------------
\* C36. Descriptor-set layouts are destroyed once.
\* ---------------------------------------------------------------------

LayoutCalls(op, h) ==
    Cardinality({i \in DOMAIN layoutLog :
                    layoutLog[i] = [op |-> op, handle |-> h]})
LayoutsCreated ==
    {layoutLog[i].handle : i \in {j \in DOMAIN layoutLog :
                                     layoutLog[j].op = "create"}}

\* C36: no descriptor-set layout is destroyed twice, and once the backend
\* is dropped every layout it created has been destroyed exactly once.
C36_LayoutsDestroyedOnce ==
    /\ \A h \in LayoutsCreated : LayoutCalls("destroy", h) <= 1
    /\ backendState = "dropped" =>
          \A h \in LayoutsCreated : LayoutCalls("destroy", h) = 1

(***************************************************************************)
(* Progress of the resize handshake and of shutdown: properties of         *)
(* LiveResize.                                                             *)
(***************************************************************************)
\* The WM_SIZE handler sits in rx.recv() and nothing has been sent to it.
Blocked == winPc = "wm_size" /\ ack.state = "open"

\* The client thread has a step to take without any message from the window
\* thread: an event to receive, or the Resize arm to go on with.
ClientCanStep ==
    \/ clientPc = "select" /\ winQueue # <<>>
    \/ clientPc \in {"resize", "draw", "ack"}

\* The Resize event of the open acknowledgment is queued, or is the one in
\* the client's hands.
ResizePending ==
    LET event == ResizeEvent(ack.size[1], ack.size[2])
    IN  IF clientPc = "select"
        THEN \E i \in DOMAIN winQueue : winQueue[i] = event
        ELSE clientEvent = event

\* C37: while the WM_SIZE handler waits for the acknowledgment the client
\* thread always has a step of its own to take; it takes window events from
\* the head of the queue; an acknowledgment is sent only on the open
\* channel of the Resize event in hand, and once sent stays sent until the
\* handler takes it; and unless resize or draw_frame fails, a waiting
\* handler eventually returns to the message pump.
C37_HandshakeCompletes ==
    /\ [](Blocked => (ClientCanStep /\ ResizePending))
    /\ [][/\ (Len(winQueue') < Len(winQueue)
               => clientEvent' = Head(winQueue) /\ winQueue' = Tail(winQueue))
          /\ ((ack'.state = "sent" /\ ack.state # "sent")
               => /\ ack.state = "open" /\ clientPc = "ack"
                  /\ clientEvent = ResizeEvent(ack.size[1], ack.size[2]))
          /\ (ack.state = "sent" => (ack' = ack \/ (ack' = NoAck /\ winPc' = "pump")))
         ]_vars
    /\ (winPc = "wm_size") ~> (winPc = "pump" \/ clientPc = "panicked")

\* A handshake is over: the handler is back in the pump with the frame
\* drawn at the new size, after a key event that was handled on the way.
C37_Witness ==
    /\ winPc = "pump" /\ FLAG /\ ack = NoAck
    /\ drawnExtent # InitialExtent /\ clientPc = "select"
    /\ clientEvent.type = "Resize"
    /\ toServer # <<>>

\* WindowEvent::Quit has been sent and not yet received.
QuitQueued == \E i \in DOMAIN winQueue : winQueue[i] = QuitEvent

\* The ClientMessage::Shutdown messages on their way to the main thread.
ShutdownsQueued == Len(SelectSeq(toServer, LAMBDA m : m = "Shutdown"))

\* C38: a Quit that was sent is the last window event; once it is sent the
\* client thread leaves its loop and the main thread's loop ends; the
\* client leaves the loop only by receiving Quit from the head of the
\* queue, and then sends one Shutdown, the only one there ever is and the
\* last message the main thread gets; after it the client handles no
\* event.
C38_QuitShutsDown ==
    /\ [](QuitQueued => /\ winQueue[Len(winQueue)] = QuitEvent
                        /\ winPc = "ended" /\ clientPc = "select")
    /\ [](/\ ShutdownsQueued + (IF mainPc = "done" THEN 1 ELSE 0)
               = (IF clientPc = "exited" THEN 1 ELSE 0)
          /\ (ShutdownsQueued = 1 => toServer[Len(toServer)] = "Shutdown")
          /\ (clientPc = "exited" => clientEvent = QuitEvent)
          /\ (mainPc = "done" => toServer = <<>>))
    /\ [][/\ ((clientPc # "exited" /\ clientPc' = "exited")
               => /\ winQueue # <<>> /\ Head(winQueue) = QuitEvent
                  /\ toServer' = Append(toServer, "Shutdown"))
          /\ (clientPc = "exited"
               => /\ clientPc' = "exited" /\ clientEvent' = clientEvent
                  /\ winQueue' = winQueue)
         ]_vars
    /\ QuitQueued ~> (clientPc = "exited" /\ mainPc = "done")

\* Everything has ended: the pump, the client's loop after a resize and a
\* command, and the main thread's loop.
C38_Witness ==
    /\ winPc = "ended" /\ clientPc = "exited" /\ mainPc = "done"
    /\ winQueue = <<>> /\ toServer = <<>>
    /\ drawnExtent # InitialExtent

(***************************************************************************)
(* Mapping the text buffer: properties of SpecMap.                         *)
(***************************************************************************)
\* (start + count) * size_of::<T>() <= self.size, for the call tried.
WithinLimits ==
    (mapCall.start + mapCall.count) * mapCall.size_of_t <= mapCall.size

MapCalled == mapResult # NotCalled

\* update_buffer wrote nothing beyond the text buffer: a text longer than
\* the buffer gets the limits error with no entry written, an error of any
\* kind leaves no entry written, and the entries written are fewer than or
\* as many as the elements mapped.
WritesStayInside ==
    updateResult # "none" =>
        /\ Len(text) > TextBufferEntries =>
              (updateResult = OutsideLimits /\ text_buffer.written = <<>>)
        /\ updateResult # "Ok" => text_buffer.written = <<>>
        /\ Len(text_buffer.written) <= Len(text)
        /\ Len(text_buffer.written) <= TextBufferEntries

\* C39 as stated: map_memory succeeds exactly when the range lies within
\* the buffer, maps nothing otherwise, and update_buffer writes nothing
\* beyond the text buffer.
C39_MapSucceedsWithinLimits ==
    /\ MapCalled => /\ mapResult.ok <=> WithinLimits
                    /\ ~mapResult.ok => mapResult.device = <<>>
    /\ WritesStayInside

\* C39: map_memory returns the limits error, without calling vkMapMemory,
\* exactly when the range does not lie within the buffer; within it,
\* vkMapMemory is called on the range in bytes and map_memory gives its
\* error, or a slice of `count` elements; a text that fits the buffer is
\* placed unless vkMapMemory fails; and update_buffer writes nothing beyond
\* the text buffer.
C39_MapChecksLimits ==
    /\ MapCalled =>
          /\ ~WithinLimits <=> mapResult.err = OutsideLimits
          /\ ~WithinLimits => (~mapResult.ok /\ mapResult.device = <<>>)
          /\ WithinLimits =>
                /\ mapResult.device =
                      <<[offset |-> mapCall.size_of_t * mapCall.start,
                         size |-> mapCall.size_of_t * mapCall.count]>>
                /\ mapResult.ok <=> mapCall.vk = "SUCCESS"
                /\ mapResult.ok => mapResult.len = mapCall.count
                /\ ~mapResult.ok => mapResult.err = mapCall.vk
    /\ WritesStayInside
    /\ (updateResult # "none" /\ Len(text) <= TextBufferEntries)
          => updateResult \in {"Ok", "ERROR_MEMORY_MAP_FAILED"}

\* A range that starts inside the buffer and ends outside it was refused.
C39_Witness ==
    /\ MapCalled /\ mapResult.err = OutsideLimits
    /\ mapCall.start > 0
    /\ mapCall.start * mapCall.size_of_t < mapCall.size
    /\ mapCall.count * mapCall.size_of_t <= mapCall.size

====
